---- MODULE Spec2Model ----
(***************************************************************************)
(* Model of the gateway's fee estimators (Ethereum.estimateGasPrice,       *)
(* SolanaPriorityFees.estimatePriorityFee) and of the Solana submission    *)
(* and confirmation engine (Solana._sendAndConfirmRawTransaction with its  *)
(* callers sendAndConfirmTransaction, handleConfirmation, closePosition).  *)
(*                                                                         *)
(* Number representation.  GWEI amounts are kept as integer WEI (the       *)
(* numerator over 10^9), lamports-per-CU amounts as integer micro-lamports *)
(* (the numerator over 10^6).  An optional value (x?: number) is <<>> when *)
(* undefined and <<v>> when set.                                           *)
(***************************************************************************)
EXTENDS Integers, Sequences, FiniteSets, TLC

VARIABLES
    now,                      \* Date.now() in ms
    ethConfig,                \* network -> fields set by the Ethereum constructor
    lastGasPriceEstimate,     \* Ethereum.lastGasPriceEstimate (static)
    cachedBy,                 \* network of the instance whose call wrote lastGasPriceEstimate
                              \*   (bookkeeping: the cache itself does not record it)
    lastPriorityFeeEstimate,  \* SolanaPriorityFees.lastPriorityFeeEstimate (static)
    feeReturn                 \* the last fee estimator call: who called, when, which
                              \*   return statement answered, and the value returned

feeVars == <<now, ethConfig, lastGasPriceEstimate, cachedBy, lastPriorityFeeEstimate, feeReturn>>

VARIABLES
    caller,               \* entry point in use: "none", "raw" (sendAndConfirmRawTransaction
                          \*   + handleConfirmation) or "close" (closePosition)
    pc,                   \* position of the single submission being followed
    helius,               \* [service, webSocket]: heliusService set / WebSocket connected
    serializedTx,         \* the bytes handed to _sendAndConfirmRawTransaction
    lastValidBlockHeight, \* from getLatestBlockhash at line 1426
    signature,            \* <<>> until a send succeeds
    attempts,             \* loop counter of the polling loop
    sends,                \* every send call made so far: the bytes it carried
    statusPolls,          \* number of getSignatureStatuses calls made so far
    polled,               \* what the latest getSignatureStatuses call answered
    engineStatus,         \* state of the submission as the engine decided it
    engineResult,         \* what _sendAndConfirmRawTransaction returned or threw
    reported,             \* status codes reported for the submission, in order
    response,             \* what the entry point delivered to its caller
    chainHeight,          \* network: current block height
    txOnChain             \* network: what it knows of the transaction

engVars == <<caller, pc, helius, serializedTx, lastValidBlockHeight, signature, attempts,
             sends, statusPolls, polled, engineStatus, engineResult, reported, response,
             chainHeight, txOnChain>>

VARIABLES
    build,                \* task -> the approveERC20 / wrapNativeToken / prepareGasOptions
                          \*   call it runs: position, arguments, gas options, nonce
    transactionCount,     \* network -> transactions of the wallet mined so far
    mempool               \* transactions handed to the network and not yet mined

bldVars == <<build, transactionCount, mempool>>

VARIABLES
    registry,             \* class -> the static _instances map: network -> instance (0: none)
    instanceCount,        \* instances constructed so far; instances are numbered 1, 2, ...
    initialized,          \* the instances whose init() has completed
    handedOut,            \* class -> network -> instances getInstance has returned since
                          \*   the last close() (bookkeeping)
    getCalls              \* task -> the getInstance call it runs

instVars == <<registry, instanceCount, initialized, handedOut, getCalls>>

VARIABLES
    estimation,           \* task -> the estimateGasPrice / estimatePriorityFee call it runs
    writes                \* the cache entries written, in order, each with its computation

concVars == <<estimation, writes>>

VARIABLES
    settleCall,           \* the arguments of the settlement call followed
    settlement            \* what that call returned or threw

setVars == <<settleCall, settlement>>

VARIABLES
    consultation          \* the configuration the instances were constructed from, and
                          \*   the latest estimateGasPrice() call with what each source
                          \*   answered and which sources it consulted (bookkeeping)

srcVars == <<consultation>>

VARIABLES
    routeCall,            \* the HTTP request followed and what its route finds
    routeReply,           \* what the HTTP layer answered to it
    routeEffects          \* the transactions sent while the request was served

routeVars == <<routeCall, routeReply, routeEffects>>

VARIABLES
    swapQuote,            \* the latest swap quote: its request and the response
    quoteCache,           \* the quote ids the quote cache holds
    execution,            \* per task: where its executeQuote call stands
    swaps                 \* per quote id: the executeQuote calls that returned status 1

quoteVars == <<swapQuote, quoteCache, execution, swaps>>

VARIABLES
    confirmation,         \* the latest Solana.confirmTransaction call and its outcome
    extraction            \* the latest balance change extracted from a transaction

confVars == <<confirmation, extraction>>

\* The variables of the parts defined after each part
afterRouteVars == <<quoteVars, confVars>>
afterSrcVars == <<routeVars, afterRouteVars>>
afterSetVars == <<srcVars, afterSrcVars>>
afterConcVars == <<setVars, afterSetVars>>
afterInstVars == <<concVars, afterConcVars>>
afterBldVars == <<instVars, afterInstVars>>
afterEngVars == <<bldVars, afterBldVars>>

vars == <<feeVars, engVars, afterEngVars>>

----------------------------------------------------------------------------
(* Bounds of the model *)

MaxNow == 10000
TickMs == 5000
MaxHeight == 2
ValidityWindow == 1

----------------------------------------------------------------------------
(* Optional values *)

Undefined == <<>>
IsDef(x) == x # <<>>
Val(x) == x[1]
Opt(S) == {<<>>} \cup {<<v>> : v \in S}
Max(a, b) == IF a >= b THEN a ELSE b

----------------------------------------------------------------------------
(* Ethereum fee estimator *)

GAS_PRICE_CACHE_MS == 10000
\* 0.1 GWEI, in WEI
DefaultMinGasPrice == 100000000

EthNetworks == {"mainnet", "bsc"}

\* WEI amounts the upstream sources and the configuration may carry
WeiValues == {0, 200000000}
ConfigMinGasPrices == {<<>>, <<300000000>>}

\* ConstructorMinGasPrice with no floor when none is configured
ConstructorMinGasPriceZero(cfgMin) ==
    IF IsDef(cfgMin) /\ Val(cfgMin) # 0 THEN Val(cfgMin) ELSE 0

\* constructor: this.minGasPrice = config.minGasPrice || 0.1
ConstructorMinGasPrice(cfgMin) ==
    IF IsDef(cfgMin) /\ Val(cfgMin) # 0 THEN Val(cfgMin) ELSE DefaultMinGasPrice

SupportsEIP1559(network) ==
    network \in {"mainnet", "polygon", "arbitrum", "optimism", "base"}

NoEstimate == [isNull |-> TRUE, timestamp |-> 0, gasPrice |-> 0,
               maxFeePerGas |-> <<>>, maxPriorityFeePerGas |-> <<>>,
               isEIP1559 |-> FALSE]

\* Lines 135-138 (and solana-priority-fees.ts 20-23): the cache check
CacheFresh(cache, t, ttl) == ~cache.isNull /\ t - cache.timestamp < ttl

\* What the upstream sources answer during one estimateGasPrice() call.
\*   etherscan : "none" (no service) | "error" | "ok" with scanMaxFee, scanPriority
\*   feeData   : "error" | "missing" (fields null) | "ok" with rpcMaxFee, rpcPriority, blockBaseFee
\*   gasPrice  : "error" | "ok" with legacyGasPrice, legacyPriority
\* (the amounts of a source that fails are not read: one value stands for them)
EthUpstreams ==
    {up \in [etherscan : {"error", "ok"}, scanMaxFee : {-50000000, 300000000}, scanPriority : {0},
             feeData : {"error", "missing", "ok"}, rpcMaxFee : {0}, rpcPriority : {50000000},
             blockBaseFee : {100000000},
             gasPrice : {"error", "ok"}, legacyGasPrice : WeiValues, legacyPriority : {50000000}] :
        /\ up.etherscan = "error" => up.scanMaxFee = 300000000
        /\ up.gasPrice = "error" => up.legacyGasPrice = 0}

\* Lines 150-242: the EIP-1559 branch.  Result: [ok, maxFee, priority];
\* ok = FALSE stands for the throw at line 216 caught at line 239.
EIP1559Fees(inst, up) ==
    LET scanOk == inst.hasEtherscan /\ up.etherscan = "ok"
        net1 == IF scanOk THEN [maxFee |-> <<up.scanMaxFee>>, prio |-> <<up.scanPriority>>]
                ELSE [maxFee |-> <<>>, prio |-> <<>>]
        recommendedMaxFee == up.blockBaseFee * 2 + up.rpcPriority
        net2 == IF (~IsDef(net1.maxFee) \/ ~IsDef(net1.prio)) /\ up.feeData = "ok"
                THEN [maxFee |-> <<Max(up.rpcMaxFee, recommendedMaxFee)>>,
                      prio |-> <<up.rpcPriority>>]
                ELSE net1
    IN  IF IsDef(inst.maxFeePerGas) /\ IsDef(inst.maxPriorityFeePerGas)
        THEN [ok |-> TRUE, maxFee |-> Val(inst.maxFeePerGas),
              priority |-> Val(inst.maxPriorityFeePerGas)]
        ELSE IF IsDef(net2.maxFee) /\ IsDef(net2.prio)
        THEN [ok |-> TRUE, maxFee |-> Val(net2.maxFee), priority |-> Val(net2.prio)]
        ELSE [ok |-> FALSE, maxFee |-> 0, priority |-> 0]

\* Lines 219-226: apply the minimum gas price to the EIP-1559 max fee
ApplyMinGasPrice(maxFee, minGasPrice) ==
    IF maxFee < minGasPrice THEN minGasPrice ELSE maxFee

\* LegacyEstimate letting the RPC error escape instead of catching it
LegacyEstimateRethrows(inst, cache, t, up) ==
    IF up.gasPrice = "error"
    THEN [value |-> 0, cache |-> cache, served |-> "throw"]
    ELSE LET priorityFee == IF inst.network = "mainnet" THEN up.legacyPriority ELSE 0
             baseWithPriority == up.legacyGasPrice + priorityFee
             adjustedFee == IF baseWithPriority < inst.minGasPrice
                            THEN inst.minGasPrice ELSE baseWithPriority
         IN  [value |-> adjustedFee,
              cache |-> [isNull |-> FALSE, timestamp |-> t, gasPrice |-> adjustedFee,
                         maxFeePerGas |-> <<>>, maxPriorityFeePerGas |-> <<>>,
                         isEIP1559 |-> FALSE],
              served |-> "estimate"]

\* Lines 244-287: legacy estimation.  Result: [value, cache, served], where
\* served names the return statement taken: "cache" (line 139), "estimate"
\* (lines 238, 283), "floor" (line 286); a call that rejected would be "throw".
LegacyEstimate(inst, cache, t, up) ==
    IF up.gasPrice = "error"
    THEN [value |-> inst.minGasPrice, cache |-> cache, served |-> "floor"]
    ELSE LET priorityFee == IF inst.network = "mainnet" THEN up.legacyPriority ELSE 0
             baseWithPriority == up.legacyGasPrice + priorityFee
             adjustedFee == IF baseWithPriority < inst.minGasPrice
                            THEN inst.minGasPrice ELSE baseWithPriority
         IN  [value |-> adjustedFee,
              cache |-> [isNull |-> FALSE, timestamp |-> t, gasPrice |-> adjustedFee,
                         maxFeePerGas |-> <<>>, maxPriorityFeePerGas |-> <<>>,
                         isEIP1559 |-> FALSE],
              served |-> "estimate"]

\* Lines 133-288: estimateGasPrice().  Result: [value, cache, served]
EstimateGasPriceResult(inst, cache, t, up) ==
    IF CacheFresh(cache, t, GAS_PRICE_CACHE_MS)
    THEN [value |-> cache.gasPrice, cache |-> cache, served |-> "cache"]
    ELSE LET fees == EIP1559Fees(inst, up)
             maxFee == ApplyMinGasPrice(fees.maxFee, inst.minGasPrice)
         IN  IF SupportsEIP1559(inst.network) /\ fees.ok
             THEN [value |-> maxFee,
                   cache |-> [isNull |-> FALSE, timestamp |-> t, gasPrice |-> maxFee,
                              maxFeePerGas |-> <<maxFee>>,
                              maxPriorityFeePerGas |-> <<fees.priority>>,
                              isEIP1559 |-> TRUE],
                   served |-> "estimate"]
             ELSE LegacyEstimate(inst, cache, t, up)

\* Every upstream source of estimateGasPrice fails or is unavailable: the
\* fee oracle, the RPC fee data and the RPC gas price
EthUpstreamsFailed(up) ==
    up.etherscan = "error" /\ up.feeData \in {"error", "missing"} /\ up.gasPrice = "error"

\* One estimateGasPrice() call on the instance of network n, with result r:
\* its effect on the static cache, and the record of the call
CallEstimateGasPrice(n, up, r) ==
    /\ lastGasPriceEstimate' = r.cache
    /\ cachedBy' = IF r.served = "estimate" THEN n ELSE cachedBy
    /\ feeReturn' = [callee |-> "estimateGasPrice", network |-> n, at |-> now,
                     minimum |-> ethConfig[n].minGasPrice,
                     upstreamsFailed |-> EthUpstreamsFailed(up),
                     served |-> r.served, value |-> r.value]

EstimateGasPrice(n) ==
    \E up \in EthUpstreams :
        LET r == EstimateGasPriceResult(ethConfig[n], lastGasPriceEstimate, now, up)
        IN  /\ CallEstimateGasPrice(n, up, r)
            /\ UNCHANGED <<now, ethConfig, lastPriorityFeeEstimate, engVars, afterEngVars>>

----------------------------------------------------------------------------
(* Solana priority fee estimator *)

PRIORITY_FEE_CACHE_MS == 10000
\* 0.1 lamports per CU, in micro-lamports
DefaultMinPriorityFee == 100000

\* The SolanaNetworkConfig objects callers pass (one per network):
\* minPriorityFeePerCU, useHeliusRestRPC, and whether heliusAPIKey is usable
SolConfigs ==
    [minPriorityFeePerCU : {<<>>, <<0>>, <<300000>>},
     useHeliusRestRPC : {TRUE}, hasApiKey : BOOLEAN]

NoPriorityEstimate == [isNull |-> TRUE, timestamp |-> 0, fee |-> 0]

\* config.minPriorityFeePerCU || 0.1
MinimumFee(config) ==
    IF IsDef(config.minPriorityFeePerCU) /\ Val(config.minPriorityFeePerCU) # 0
    THEN Val(config.minPriorityFeePerCU) ELSE DefaultMinPriorityFee

\* What the Helius RPC answers during one estimatePriorityFee() call:
\*   "throw" (fetch rejects) | "notOk" | "rpcError" | "notNumber" | "ok" with estimate
\* (estimate in micro-lamports per CU, as the API reports it)
SolUpstreams ==
    {up \in [response : {"throw", "notOk", "rpcError", "notNumber", "ok"},
             priorityFeeEstimate : {-100000, 0, 200000}] :
        up.response # "ok" => up.priorityFeeEstimate = 200000}

\* Line 81: priorityFeeEstimate / 1_000_000 gives lamports; lamports are
\* kept here as the numerator over 10^6, so the numerator is the estimate.
MicroLamportsToLamports(estimate) == estimate

\* Lines 18-102: estimatePriorityFee(config).  Result: [value, cache, served]
EstimatePriorityFeeResult(config, cache, t, up) ==
    IF CacheFresh(cache, t, PRIORITY_FEE_CACHE_MS)
    THEN [value |-> cache.fee, cache |-> cache, served |-> "cache"]
    ELSE IF ~config.useHeliusRestRPC \/ ~config.hasApiKey \/ up.response # "ok"
    THEN [value |-> MinimumFee(config), cache |-> cache, served |-> "floor"]
    ELSE LET finalFee == Max(MicroLamportsToLamports(up.priorityFeeEstimate),
                             MinimumFee(config))
         IN  [value |-> finalFee,
              cache |-> [isNull |-> FALSE, timestamp |-> t, fee |-> finalFee],
              served |-> "estimate"]

\* The one upstream source of estimatePriorityFee fails or is unavailable
SolUpstreamFailed(config, up) ==
    ~config.useHeliusRestRPC \/ ~config.hasApiKey \/ up.response # "ok"

EstimatePriorityFee(config) ==
    \E up \in SolUpstreams :
        LET r == EstimatePriorityFeeResult(config, lastPriorityFeeEstimate, now, up)
        IN  /\ lastPriorityFeeEstimate' = r.cache
            /\ feeReturn' = [callee |-> "estimatePriorityFee", network |-> "solana", at |-> now,
                             minimum |-> MinimumFee(config),
                             upstreamsFailed |-> SolUpstreamFailed(config, up),
                             served |-> r.served, value |-> r.value]
            /\ UNCHANGED <<now, ethConfig, lastGasPriceEstimate, cachedBy, engVars, afterEngVars>>

----------------------------------------------------------------------------
(* Wall clock *)

Tick ==
    /\ now + TickMs <= MaxNow
    /\ now' = now + TickMs
    /\ UNCHANGED <<ethConfig, lastGasPriceEstimate, cachedBy, lastPriorityFeeEstimate, feeReturn,
                   engVars, afterEngVars>>


----------------------------------------------------------------------------
(* Solana submission and confirmation engine *)

maxPollingAttempts == 30
\* lamports
BASE_FEE == 5000
\* config.defaultComputeUnits
DefaultComputeUnits == 200000
\* units a successful simulation reports
SimulatedUnits == 100

NoSignature == ""
TxSignature == "sig"

\* txData: <<>> is null, otherwise <<record>> with meta.err and meta.fee
TxRecord(err) == [err |-> err, fee |-> BASE_FEE]

NoResult == [kind |-> "none", confirmed |-> FALSE, signature |-> NoSignature, txData |-> <<>>]
Returned(confirmed, sig, txData) ==
    [kind |-> "return", confirmed |-> confirmed, signature |-> sig, txData |-> txData]
Thrown == [kind |-> "throw", confirmed |-> FALSE, signature |-> NoSignature, txData |-> <<>>]

NoResponse == [kind |-> "none", status |-> 0, signature |-> NoSignature, hasData |-> FALSE]
Result(status, sig, hasData) ==
    [kind |-> "result", status |-> status, signature |-> sig, hasData |-> hasData]
Exception == [kind |-> "exception", status |-> 0, signature |-> NoSignature, hasData |-> FALSE]

\* Status codes of the HTTP surface
CONFIRMED == 1
PENDING == 0
FAILED == -1

EngineRunning == pc \in {"blockhash", "send", "monitor", "poll", "getTx", "height", "rebroadcast"}

\* The bytes of a built transaction: the blockhash it was signed over and
\* its compute budget instructions
Serialize(blockhash, fee, units) ==
    [recentBlockhash |-> blockhash, priorityFeeMicroLamports |-> fee, computeUnits |-> units]

\* Line 1086: Math.ceil(unitsConsumed * 1.1)
WithMargin(units) == (units * 11 + 9) \div 10

\* Lines 1393-1419: sendAndConfirmRawTransaction(transaction); the caller
\* built and signed the transaction, the method serializes it.
SendAndConfirmRawTransaction ==
    /\ caller = "none"
    /\ caller' = "raw"
    /\ serializedTx' = Serialize(chainHeight, 0, DefaultComputeUnits)
    /\ pc' = "blockhash"
    /\ engineStatus' = "Built"
    /\ UNCHANGED <<feeVars, afterEngVars, helius, lastValidBlockHeight, signature, attempts, sends,
                   statusPolls, polled, engineResult, reported, response, chainHeight, txOnChain>>

\* The SolanaNetworkConfig of the instance closePosition runs on
CloseConfig == [minPriorityFeePerCU |-> <<>>, useHeliusRestRPC |-> TRUE, hasApiKey |-> TRUE]
CloseUpstreams == {up \in SolUpstreams : up.response \in {"throw", "ok"} /\ up.priorityFeeEstimate = 200000}

\* closePosition lines 147-148 calling sendAndConfirmTransaction lines
\* 1058-1113: estimate the priority fee, simulate for compute units,
\* prepare (compute budget, blockhash, sign), serialize.
ClosePositionSend ==
    /\ caller = "none"
    /\ caller' = "close"
    /\ \E up \in CloseUpstreams, simulation \in {"throw", "ok"}, prepare \in {"throw", "ok"} :
         LET est == EstimatePriorityFeeResult(CloseConfig, lastPriorityFeeEstimate, now, up)
             computeUnitsToUse == IF simulation = "ok" THEN WithMargin(SimulatedUnits)
                                  ELSE DefaultComputeUnits
         IN  /\ lastPriorityFeeEstimate' = est.cache
             /\ feeReturn' = [callee |-> "estimatePriorityFee", network |-> "solana", at |-> now,
                              minimum |-> MinimumFee(CloseConfig),
                              upstreamsFailed |-> SolUpstreamFailed(CloseConfig, up),
                              served |-> est.served, value |-> est.value]
             /\ IF prepare = "ok"
                THEN /\ serializedTx' = Serialize(chainHeight, est.value, computeUnitsToUse)
                     /\ pc' = "blockhash"
                     /\ engineStatus' = "Built"
                     /\ response' = response
                ELSE /\ serializedTx' = serializedTx
                     /\ pc' = "done"
                     /\ engineStatus' = engineStatus
                     /\ response' = Exception
    /\ UNCHANGED <<now, ethConfig, lastGasPriceEstimate, cachedBy, afterEngVars, helius,
                   lastValidBlockHeight,
                   signature, attempts, sends, statusPolls, polled, engineResult, reported,
                   chainHeight, txOnChain>>

\* The engine returns or throws: record the result and, for a submitted
\* transaction, the status it decided.
EngineEnds(status, result, codes) ==
    /\ pc' = "engineDone"
    /\ engineStatus' = status
    /\ engineResult' = result
    /\ reported' = reported \o codes

\* Line 1426: getLatestBlockhash('confirmed'), outside the try block
GetLatestBlockhash ==
    /\ pc = "blockhash"
    /\ \E outcome \in {"throw", "ok"} :
         IF outcome = "ok"
         THEN /\ lastValidBlockHeight' = chainHeight + ValidityWindow
              /\ pc' = "send"
              /\ engineStatus' = "Broadcasting"
              /\ UNCHANGED <<engineResult, reported>>
         ELSE /\ EngineEnds(engineStatus, Thrown, <<>>)
              /\ UNCHANGED lastValidBlockHeight
    /\ UNCHANGED <<feeVars, afterEngVars, caller, helius, serializedTx, signature, attempts, sends,
                   statusPolls, polled, response, chainHeight, txOnChain>>

\* One send call: which method, and the bytes it was given
SendCall(method, bytes) == [call |-> method, bytes |-> bytes]

\* The bytes the first broadcast carries
BroadcastBytes(tx) == tx

\* Lines 1430-1470 and 1529-1532: the first broadcast.  With a Helius
\* service sendWithSender is tried first and sendRawTransaction is the
\* fallback; a failure of the last send is caught at line 1529.
Send ==
    /\ pc = "send"
    /\ \E sender \in {"throw", "ok"}, rpc \in {"throw", "ok"} :
         LET viaSender == helius.service
             senderOk == viaSender /\ sender = "ok"
             bytes == BroadcastBytes(serializedTx)
             calls == IF ~viaSender THEN <<SendCall("sendRawTransaction", bytes)>>
                      ELSE IF senderOk THEN <<SendCall("sendWithSender", bytes)>>
                      ELSE <<SendCall("sendWithSender", bytes),
                             SendCall("sendRawTransaction", bytes)>>
             sent == senderOk \/ rpc = "ok"
         IN  /\ (senderOk => rpc = "ok")
             /\ sends' = sends \o calls
             /\ IF sent
                THEN /\ signature' = <<TxSignature>>
                     /\ attempts' = 0
                     /\ pc' = IF helius.service /\ helius.webSocket THEN "monitor" ELSE "poll"
                     /\ engineStatus' = "Pending"
                     /\ UNCHANGED <<engineResult, reported>>
                ELSE /\ EngineEnds("SubmissionFailed", Returned(FALSE, NoSignature, <<>>), <<>>)
                     /\ UNCHANGED <<signature, attempts>>
    /\ UNCHANGED <<feeVars, afterEngVars, caller, helius, serializedTx, lastValidBlockHeight,
                   statusPolls, polled, response, chainHeight, txOnChain>>

\* heliusService.monitorTransaction(signature, 60000): resolves to
\* { confirmed, txData? } or rejects
MonitorOutcomes ==
    {[kind |-> "throw", confirmed |-> FALSE, txData |-> <<>>],
     [kind |-> "ok", confirmed |-> TRUE, txData |-> <<TxRecord(FALSE)>>],
     [kind |-> "ok", confirmed |-> FALSE, txData |-> <<TxRecord(TRUE)>>],
     [kind |-> "ok", confirmed |-> FALSE, txData |-> <<>>]}

\* Lines 1452-1463: WebSocket monitoring; a rejection is caught at 1529
Monitor ==
    /\ pc = "monitor"
    /\ \E m \in MonitorOutcomes :
         IF m.kind = "throw"
         THEN EngineEnds("Expired", Returned(FALSE, Val(signature), <<>>), <<PENDING>>)
         ELSE IF m.confirmed
         THEN EngineEnds("Confirmed", Returned(TRUE, Val(signature), m.txData), <<CONFIRMED>>)
         ELSE IF IsDef(m.txData)
         THEN EngineEnds("Failed", Returned(FALSE, Val(signature), m.txData), <<FAILED>>)
         ELSE EngineEnds("Expired", Returned(FALSE, Val(signature), m.txData), <<PENDING>>)
    /\ UNCHANGED <<feeVars, afterEngVars, caller, helius, serializedTx, lastValidBlockHeight, signature,
                   attempts, sends, statusPolls, polled, response, chainHeight, txOnChain>>

\* NextIteration with the loop condition off by one
NextIterationOffByOne(att) ==
    IF att <= maxPollingAttempts
    THEN /\ pc' = "poll"
         /\ UNCHANGED <<engineStatus, engineResult, reported>>
    ELSE EngineEnds("Expired", Returned(FALSE, Val(signature), <<>>), <<PENDING>>)

\* Lines 1472 and 1526-1528: the loop condition; when it fails the engine
\* returns not confirmed
NextIteration(att) ==
    IF att < maxPollingAttempts
    THEN /\ pc' = "poll"
         /\ UNCHANGED <<engineStatus, engineResult, reported>>
    ELSE EngineEnds("Expired", Returned(FALSE, Val(signature), <<>>), <<PENDING>>)

\* OnStatusErr treating the error as "not yet seen" and polling on
OnStatusErrKeepsPolling ==
    /\ pc' = "height"
    /\ UNCHANGED <<engineStatus, engineResult, reported>>

\* Lines 1481-1484: the network reports an execution error
OnStatusErr ==
    EngineEnds("Failed", Returned(FALSE, Val(signature), <<>>), <<FAILED>>)

\* What getSignatureStatuses answers for the transaction: null while it is
\* unseen, err once it failed, else its confirmationStatus
StatusOf(onChain) ==
    CASE onChain = "unseen" -> "null"
      [] onChain = "failed" -> "err"
      [] OTHER -> onChain

\* Lines 1473-1497 and 1520-1523: one status check
Poll ==
    /\ pc = "poll"
    /\ attempts' = attempts + 1
    /\ statusPolls' = statusPolls + 1
    /\ \E rpc \in {"throw", "ok"} :
         LET status == IF rpc = "throw" THEN "throw" ELSE StatusOf(txOnChain)
         IN  /\ polled' = status
             /\ IF status = "throw"
                THEN NextIteration(attempts + 1)
                ELSE IF status = "err"
                THEN OnStatusErr
                ELSE IF status \in {"confirmed", "finalized"}
                THEN /\ pc' = "getTx"
                     /\ UNCHANGED <<engineStatus, engineResult, reported>>
                ELSE /\ pc' = "height"
                     /\ UNCHANGED <<engineStatus, engineResult, reported>>
    /\ UNCHANGED <<feeVars, afterEngVars, caller, helius, serializedTx, lastValidBlockHeight, signature,
                   sends, response, chainHeight, txOnChain>>

\* Lines 1486-1496: the status is confirmed or finalized; fetch the
\* transaction (it may come back null) and return confirmed
GetTransaction ==
    /\ pc = "getTx"
    /\ \E rpc \in {"throw", "null", "ok"} :
         IF rpc = "throw"
         THEN NextIteration(attempts)
         ELSE EngineEnds("Confirmed",
                         Returned(TRUE, Val(signature),
                                  IF rpc = "ok" THEN <<TxRecord(FALSE)>> ELSE <<>>),
                         <<CONFIRMED>>)
    /\ UNCHANGED <<feeVars, afterEngVars, caller, helius, serializedTx, lastValidBlockHeight, signature,
                   attempts, sends, statusPolls, polled, response, chainHeight, txOnChain>>

\* BlockhashExpired firing already at the last valid height
BlockhashExpiredInclusive(currentBlockHeight, lastValid) == currentBlockHeight >= lastValid

\* Line 1501: currentBlockHeight > lastValidBlockHeight
BlockhashExpired(currentBlockHeight, lastValid) == currentBlockHeight > lastValid

\* Lines 1499-1501 and 1518-1519: read the block height; past the window
\* go on to re-broadcast, otherwise wait and loop
GetBlockHeight ==
    /\ pc = "height"
    /\ \E rpc \in {"throw", "ok"} :
         IF rpc = "ok" /\ BlockhashExpired(chainHeight, lastValidBlockHeight)
         THEN /\ pc' = "rebroadcast"
              /\ UNCHANGED <<engineStatus, engineResult, reported>>
         ELSE NextIteration(attempts)
    /\ UNCHANGED <<feeVars, afterEngVars, caller, helius, serializedTx, lastValidBlockHeight, signature,
                   attempts, sends, statusPolls, polled, response, chainHeight, txOnChain>>

\* RebroadcastBytes re-signing over a fresh blockhash
RebroadcastResigned(tx, height) == [tx EXCEPT !.recentBlockhash = height]

\* The bytes a re-broadcast carries (line 1506: the same serializedTx)
RebroadcastBytes(tx, height) == tx

\* Lines 1502-1519: re-broadcast; a failure is logged and ignored
Rebroadcast ==
    /\ pc = "rebroadcast"
    /\ sends' = Append(sends, SendCall("rebroadcast", RebroadcastBytes(serializedTx, chainHeight)))
    /\ NextIteration(attempts)
    /\ UNCHANGED <<feeVars, afterEngVars, caller, helius, serializedTx, lastValidBlockHeight, signature,
                   attempts, statusPolls, polled, response, chainHeight, txOnChain>>

----------------------------------------------------------------------------
(* Callers of the engine *)

\* Lines 1844-1935: handleConfirmation(signature, confirmed, txData, ...).
\* parsed: whether getParsedTransaction, called by
\* extractBalanceChangesAndFee (lines 1573-1579), finds the transaction.
HandleConfirmation(sig, confirmed, txData, parsed) ==
    IF confirmed /\ IsDef(txData)
    THEN IF parsed THEN Result(CONFIRMED, sig, TRUE) ELSE Exception
    ELSE IF IsDef(txData) /\ ~confirmed
    THEN Result(FAILED, sig, TRUE)
    ELSE Result(PENDING, sig, FALSE)

Respond(r) ==
    /\ response' = r
    /\ reported' = IF r.kind = "result" THEN Append(reported, r.status) ELSE reported
    /\ pc' = "done"

\* A route that calls sendAndConfirmRawTransaction and hands its result to
\* handleConfirmation; an exception of the engine passes through.
RawHandleConfirmation ==
    /\ pc = "engineDone"
    /\ caller = "raw"
    /\ \E parsed \in BOOLEAN :
         IF engineResult.kind = "throw"
         THEN Respond(Exception)
         ELSE Respond(HandleConfirmation(engineResult.signature, engineResult.confirmed,
                                         engineResult.txData, parsed))
    /\ UNCHANGED <<feeVars, afterEngVars, caller, helius, serializedTx, lastValidBlockHeight, signature,
                   attempts, sends, statusPolls, polled, engineStatus, engineResult,
                   chainHeight, txOnChain>>

\* Lines 1114-1122: sendAndConfirmTransaction returns { signature, fee }
\* when confirmed with txData and throws otherwise.
SendAndConfirmTransactionEnds ==
    /\ pc = "engineDone"
    /\ caller = "close"
    /\ IF engineResult.kind = "return" /\ engineResult.confirmed /\ IsDef(engineResult.txData)
       THEN /\ pc' = "refetch"
            /\ reported' = Append(reported, CONFIRMED)
            /\ UNCHANGED response
       ELSE Respond(Exception)
    /\ UNCHANGED <<feeVars, afterEngVars, caller, helius, serializedTx, lastValidBlockHeight, signature,
                   attempts, sends, statusPolls, polled, engineStatus, engineResult,
                   chainHeight, txOnChain>>

\* closePosition lines 150-185: fetch the transaction again and answer
\* CONFIRMED when it is found, PENDING when it is not.
ClosePositionRefetch ==
    /\ pc = "refetch"
    /\ \E rpc \in {"throw", "null", "ok"}, parsed \in BOOLEAN :
         IF rpc = "throw" \/ (rpc = "ok" /\ ~parsed)
         THEN Respond(Exception)
         ELSE IF rpc = "ok"
         THEN Respond(Result(CONFIRMED, engineResult.signature, TRUE))
         ELSE Respond(Result(PENDING, engineResult.signature, FALSE))
    /\ UNCHANGED <<feeVars, afterEngVars, caller, helius, serializedTx, lastValidBlockHeight, signature,
                   attempts, sends, statusPolls, polled, engineStatus, engineResult,
                   chainHeight, txOnChain>>

----------------------------------------------------------------------------
(* The network *)

\* A new block is produced
AdvanceBlock ==
    /\ EngineRunning
    /\ chainHeight < MaxHeight
    /\ chainHeight' = chainHeight + 1
    /\ UNCHANGED <<feeVars, afterEngVars, caller, pc, helius, serializedTx, lastValidBlockHeight,
                   signature, attempts, sends, statusPolls, polled, engineStatus, engineResult,
                   reported, response, txOnChain>>

\* The broadcast transaction is processed, then confirmed, or fails
Land ==
    /\ EngineRunning
    /\ IsDef(signature)
    /\ \/ txOnChain = "unseen" /\ txOnChain' \in {"processed", "confirmed", "failed"}
       \/ txOnChain = "processed" /\ txOnChain' = "confirmed"
    /\ UNCHANGED <<feeVars, afterEngVars, caller, pc, helius, serializedTx, lastValidBlockHeight,
                   signature, attempts, sends, statusPolls, polled, engineStatus, engineResult,
                   reported, response, chainHeight>>

----------------------------------------------------------------------------
(* Transaction builder: prepareGasOptions, approveERC20, wrapNativeToken *)

\* The concurrent calls followed
Tasks == {1, 2}

NoGasOptions == [type |-> -1, gasPrice |-> <<>>, maxFeePerGas |-> <<>>,
                 maxPriorityFeePerGas |-> <<>>, quoteModel |-> "none"]

NoBuild == [pc |-> "idle", op |-> "none", network |-> "none", gasPrice |-> <<>>,
            gasOptions |-> NoGasOptions, nonce |-> <<>>]

\* The entry points followed, and the gasPrice argument (GWEI, as WEI) a
\* direct prepareGasOptions(gasPrice, gasLimit) call may pass
BuildOps == {"approveERC20", "wrapNativeToken", "prepareGasOptions"}
GasPriceArgs == {<<>>, <<0>>, <<5000000>>, <<200000000>>}

\* Line 334: this.maxPriorityFeePerGas || 0.01, in WEI
DefaultPriorityFee == 10000000
PriorityFeeOf(inst) ==
    IF IsDef(inst.maxPriorityFeePerGas) /\ Val(inst.maxPriorityFeePerGas) # 0
    THEN Val(inst.maxPriorityFeePerGas) ELSE DefaultPriorityFee

\* !gasPrice is false: the argument is given and not 0
Truthy(g) == IsDef(g) /\ Val(g) # 0

\* Lines 315-317 and 351-353: the cache holds EIP-1559 values
CachedEIP1559(cache) ==
    /\ ~cache.isNull
    /\ cache.isEIP1559
    /\ IsDef(cache.maxFeePerGas)
    /\ IsDef(cache.maxPriorityFeePerGas)

\* The fee model under which the value of an estimateGasPrice() result was
\* computed: the flag of the cache entry it was read from or written to,
\* or "floor" for the fallback of line 286
QuoteModel(r) ==
    IF r.served = "floor" THEN "floor"
    ELSE IF r.cache.isEIP1559 THEN "eip1559" ELSE "legacy"

\* Type2Options setting gasPrice next to the EIP-1559 fields
Type2OptionsWithGasPrice(maxFee, priority, model) ==
    [type |-> 2, gasPrice |-> <<maxFee>>, maxFeePerGas |-> <<maxFee>>,
     maxPriorityFeePerGas |-> <<priority>>, quoteModel |-> model]

\* Lines 319-324, 335-337, 355-360: the type 2 gas options
Type2Options(maxFee, priority, model) ==
    [type |-> 2, gasPrice |-> <<>>, maxFeePerGas |-> <<maxFee>>,
     maxPriorityFeePerGas |-> <<priority>>, quoteModel |-> model]

\* Lines 371-372: the type 0 gas options
Type0Options(price, model) ==
    [type |-> 0, gasPrice |-> <<price>>, maxFeePerGas |-> <<>>,
     maxPriorityFeePerGas |-> <<>>, quoteModel |-> model]

\* Where a call goes on once prepareGasOptions has returned
AfterGasOptions(op) == IF op = "prepareGasOptions" THEN "done" ELSE "nonce"

Built(b, options) == [b EXCEPT !.gasOptions = options, !.pc = AfterGasOptions(b.op)]

\* Line 370 with the argument given (gasPrice ?? ...): no estimate is made
LegacyFromArgument(b) == Built(b, Type0Options(Val(b.gasPrice), "override"))

\* What the RPC sources answer to a builder's estimateGasPrice() call (the
\* instances a builder runs on have no fee oracle service)
BuildUpstreams == {up \in EthUpstreams : up.etherscan = "error"}

\* approveERC20 line 766, wrapNativeToken line 892 or a route calling
\* prepareGasOptions: lines 296-346, up to the first await
StartBuild(t) ==
    /\ build[t].pc = "idle"
    /\ \E op \in BuildOps, n \in EthNetworks, g \in GasPriceArgs :
         LET b == [NoBuild EXCEPT !.op = op, !.network = n, !.gasPrice = g]
             cache == lastGasPriceEstimate
         IN  /\ (op # "prepareGasOptions" => g = Undefined)
             /\ build' = [build EXCEPT ![t] =
                    IF SupportsEIP1559(n)
                    THEN IF ~Truthy(g) /\ CachedEIP1559(cache)
                         THEN Built(b, Type2Options(Val(cache.maxFeePerGas),
                                                    Val(cache.maxPriorityFeePerGas), "eip1559"))
                         ELSE IF Truthy(g)
                         THEN Built(b, Type2Options(Val(g), PriorityFeeOf(ethConfig[n]), "override"))
                         ELSE [b EXCEPT !.pc = "estimate347"]
                    ELSE IF IsDef(g) THEN LegacyFromArgument(b)
                    ELSE [b EXCEPT !.pc = "legacy370"]]
    /\ UNCHANGED <<feeVars, engVars, transactionCount, mempool, afterBldVars>>

\* Lines 347-367: estimateGasPrice() to fetch and cache values, then the
\* second look at the cache
Estimate347(t) ==
    /\ build[t].pc = "estimate347"
    /\ \E up \in BuildUpstreams :
         LET b == build[t]
             r == EstimateGasPriceResult(ethConfig[b.network], lastGasPriceEstimate, now, up)
         IN  /\ CallEstimateGasPrice(b.network, up, r)
             /\ build' = [build EXCEPT ![t] =
                    IF CachedEIP1559(r.cache)
                    THEN Built(b, Type2Options(Val(r.cache.maxFeePerGas),
                                               Val(r.cache.maxPriorityFeePerGas), "eip1559"))
                    ELSE IF IsDef(b.gasPrice) THEN LegacyFromArgument(b)
                    ELSE [b EXCEPT !.pc = "legacy370"]]
    /\ UNCHANGED <<now, ethConfig, lastPriorityFeeEstimate, engVars, transactionCount, mempool, afterBldVars>>

\* Lines 369-375: the legacy fallback, priced by estimateGasPrice()
Legacy370(t) ==
    /\ build[t].pc = "legacy370"
    /\ \E up \in BuildUpstreams :
         LET b == build[t]
             r == EstimateGasPriceResult(ethConfig[b.network], lastGasPriceEstimate, now, up)
         IN  /\ CallEstimateGasPrice(b.network, up, r)
             /\ build' = [build EXCEPT ![t] = Built(b, Type0Options(r.value, QuoteModel(r)))]
    /\ UNCHANGED <<now, ethConfig, lastPriorityFeeEstimate, engVars, transactionCount, mempool, afterBldVars>>

\* NonceRead counting the transactions still waiting in the mempool too
NonceReadPending(count, waiting) == count + waiting

\* Lines 769 and 895: provider.getTransactionCount(wallet.address), which
\* counts the transactions mined up to the latest block
NonceRead(count, waiting) == count

\* Transactions of the wallet waiting on a network
Waiting(n) == Cardinality({tx \in mempool : tx.network = n})

\* Lines 767-770 and 893-897: params = {...gasOptions, nonce}
GetTransactionCount(t) ==
    /\ build[t].pc = "nonce"
    /\ \E rpc \in {"throw", "ok"} :
         LET b == build[t]
             count == NonceRead(transactionCount[b.network], Waiting(b.network))
         IN  build' = [build EXCEPT ![t] =
                IF rpc = "ok"
                THEN [b EXCEPT !.nonce = <<count>>, !.pc = "send"]
                ELSE [b EXCEPT !.pc = "failed"]]
    /\ UNCHANGED <<feeVars, engVars, transactionCount, mempool, afterBldVars>>

\* The transaction contract.approve / deposit signs and broadcasts
BuiltTransaction(t, b) ==
    [task |-> t, network |-> b.network, nonce |-> Val(b.nonce), gasOptions |-> b.gasOptions]

\* Lines 773 and 902: sign and broadcast; the node refuses a nonce that
\* has been mined already
SendTransaction(t) ==
    /\ build[t].pc = "send"
    /\ LET b == build[t]
       IN  IF Val(b.nonce) < transactionCount[b.network]
           THEN /\ build' = [build EXCEPT ![t].pc = "failed"]
                /\ UNCHANGED mempool
           ELSE /\ build' = [build EXCEPT ![t].pc = "done"]
                /\ mempool' = mempool \cup {BuiltTransaction(t, b)}
    /\ UNCHANGED <<feeVars, engVars, transactionCount, afterBldVars>>

\* The network mines the waiting transaction that carries the next nonce;
\* a waiting transaction with the same nonce is dropped
Mine ==
    /\ \E tx \in mempool :
         /\ tx.nonce = transactionCount[tx.network]
         /\ transactionCount' = [transactionCount EXCEPT ![tx.network] = @ + 1]
         /\ mempool' = {other \in mempool :
                           other.network # tx.network \/ other.nonce # tx.nonce}
    /\ UNCHANGED <<feeVars, engVars, build, afterBldVars>>

----------------------------------------------------------------------------
(* Adapter instances: Ethereum.getInstance, Solana.getInstance,            *)
(* ETCSwap.getInstance and close()                                         *)

Classes == {"Ethereum", "Solana", "ETCSwap"}
InstanceNetworks == {"mainnet"}

NoGetCall == [pc |-> "idle", class |-> "none", network |-> "none", instance |-> 0,
              returned |-> 0]

\* Instances constructed in a run of the model
MaxInstances == 3

\* ETCSwap.getInstance stores the new instance before awaiting init()
\* (etcSwap.ts 65-68); Ethereum and Solana store it after (ethereum.ts
\* 102-106, part_006 180-184)
StoresBeforeInit(class) == class = "ETCSwap"

\* getInstance returns to its caller
Return(t, call, inst) ==
    /\ getCalls' = [getCalls EXCEPT ![t] = [call EXCEPT !.pc = "done", !.returned = inst]]
    /\ handedOut' = IF inst = 0 THEN handedOut
                    ELSE [handedOut EXCEPT ![call.class][call.network] = @ \cup {inst}]

\* getInstance(network) up to its await: look the network up, and
\* construct an instance when there is none
GetInstance(t) ==
    /\ getCalls[t].pc = "idle"
    /\ \E c \in Classes, n \in InstanceNetworks :
         LET call == [NoGetCall EXCEPT !.class = c, !.network = n]
         IN  IF registry[c][n] # 0
             THEN /\ Return(t, call, registry[c][n])
                  /\ UNCHANGED <<registry, instanceCount>>
             ELSE /\ instanceCount < MaxInstances
                  /\ instanceCount' = instanceCount + 1
                  /\ registry' = IF StoresBeforeInit(c)
                                 THEN [registry EXCEPT ![c][n] = instanceCount + 1]
                                 ELSE registry
                  /\ getCalls' = [getCalls EXCEPT ![t] =
                                    [call EXCEPT !.pc = "init", !.instance = instanceCount + 1]]
                  /\ UNCHANGED handedOut
    /\ UNCHANGED <<feeVars, engVars, bldVars, initialized, afterInstVars>>

\* await instance.init() ends: getInstance stores the instance (Ethereum,
\* Solana) and returns what the map holds; when init() throws, getInstance
\* rejects
InitEnds(t) ==
    /\ getCalls[t].pc = "init"
    /\ \E outcome \in {"throw", "ok"} :
         LET call == getCalls[t]
             c == call.class
             n == call.network
             stored == IF StoresBeforeInit(c) THEN registry
                       ELSE [registry EXCEPT ![c][n] = call.instance]
         IN  IF outcome = "ok"
             THEN /\ initialized' = initialized \cup {call.instance}
                  /\ registry' = stored
                  /\ Return(t, call, stored[c][n])
             ELSE /\ getCalls' = [getCalls EXCEPT ![t].pc = "rejected"]
                  /\ UNCHANGED <<registry, initialized, handedOut>>
    /\ UNCHANGED <<feeVars, engVars, bldVars, instanceCount, afterInstVars>>

\* The caller is done with the call and may call again
NextCall(t) ==
    /\ getCalls[t].pc \in {"done", "rejected"}
    /\ getCalls' = [getCalls EXCEPT ![t] = NoGetCall]
    /\ UNCHANGED <<feeVars, engVars, bldVars, registry, instanceCount, initialized, handedOut,
                   afterInstVars>>

\* close() on an instance that was handed out: delete the entry of its
\* network (ethereum.ts 786-790, part_006 953-957, etcSwap.ts 509-514)
Close ==
    /\ \E c \in Classes, n \in InstanceNetworks :
         /\ handedOut[c][n] # {}
         /\ registry[c][n] # 0
         /\ registry' = [registry EXCEPT ![c][n] = 0]
         /\ handedOut' = [handedOut EXCEPT ![c][n] = {}]
    /\ UNCHANGED <<feeVars, engVars, bldVars, instanceCount, initialized, getCalls,
                   afterInstVars>>

----------------------------------------------------------------------------
(* Concurrent fee estimations *)

\* One call: where it is, which estimator on which network, when it made
\* its cache check, which return statement answered, and the value returned
NoEstimation == [pc |-> "idle", callee |-> "none", network |-> "none", startedAt |-> 0,
                 served |-> "none", value |-> 0]

\* Cache writes in a run of the model
MaxWrites == 3

\* What the sources answer to the estimations followed here (the instances
\* have no fee oracle service; the Helius request succeeds or throws)
ConcurrentSolUpstreams == {up \in SolUpstreams : up.response \in {"throw", "ok"}}

\* WriteCache merging the new fields into the old entry
WriteCacheMerged(old, entry) ==
    IF old.isNull THEN entry
    ELSE [entry EXCEPT !.maxFeePerGas = IF IsDef(@) THEN @ ELSE old.maxFeePerGas,
                       !.maxPriorityFeePerGas = IF IsDef(@) THEN @ ELSE old.maxPriorityFeePerGas]

\* Lines 229-235 and 277-281: one assignment of a new object to the static
\* field
WriteCache(old, entry) == entry

\* solana-priority-fees.ts lines 92-95: one assignment of a new object
WritePriorityCache(old, entry) == entry

\* estimateGasPrice() lines 133-140 / estimatePriorityFee() lines 19-25:
\* the cache check, made synchronously when the call starts; a fresh entry
\* is returned at once, otherwise the call goes on to its first await
BeginEstimation(t) ==
    /\ estimation[t].pc \in {"idle", "done"}
    /\ Len(writes) + Cardinality({u \in Tasks : estimation[u].pc = "fetching"}) < MaxWrites
    /\ \E n \in EthNetworks \cup {"solana"} :
         LET gas == n # "solana"
             call == [NoEstimation EXCEPT !.callee = IF gas THEN "estimateGasPrice"
                                                    ELSE "estimatePriorityFee",
                                          !.network = n, !.startedAt = now]
             hit == IF gas THEN CacheFresh(lastGasPriceEstimate, now, GAS_PRICE_CACHE_MS)
                    ELSE CacheFresh(lastPriorityFeeEstimate, now, PRIORITY_FEE_CACHE_MS)
             cached == IF gas THEN lastGasPriceEstimate.gasPrice ELSE lastPriorityFeeEstimate.fee
         IN  estimation' = [estimation EXCEPT ![t] =
                IF hit THEN [call EXCEPT !.pc = "done", !.served = "cache", !.value = cached]
                ELSE [call EXCEPT !.pc = "fetching"]]
    /\ UNCHANGED <<feeVars, engVars, bldVars, instVars, writes, afterConcVars>>

\* The awaits of a call that missed the cache come back: the value is
\* computed from what the sources answered, written to the cache with the
\* time of the write (not after a fallback to the floor), and returned
EndEstimation(t) ==
    /\ estimation[t].pc = "fetching"
    /\ LET call == estimation[t]
       IN  IF call.callee = "estimateGasPrice"
           THEN \E up \in BuildUpstreams :
                  LET r == EstimateGasPriceResult(ethConfig[call.network], NoEstimate, now, up)
                      written == r.served = "estimate"
                  IN  /\ lastGasPriceEstimate' =
                             IF written THEN WriteCache(lastGasPriceEstimate, r.cache)
                             ELSE lastGasPriceEstimate
                      /\ cachedBy' = IF written THEN call.network ELSE cachedBy
                      /\ writes' = IF written
                                   THEN Append(writes, [cache |-> "gasPrice", task |-> t,
                                                        entry |-> r.cache])
                                   ELSE writes
                      /\ estimation' = [estimation EXCEPT ![t] =
                             [call EXCEPT !.pc = "done", !.served = r.served, !.value = r.value]]
                      /\ UNCHANGED lastPriorityFeeEstimate
           ELSE \E up \in ConcurrentSolUpstreams :
                  LET r == EstimatePriorityFeeResult(CloseConfig, NoPriorityEstimate, now, up)
                      written == r.served = "estimate"
                  IN  /\ lastPriorityFeeEstimate' =
                             IF written THEN WritePriorityCache(lastPriorityFeeEstimate, r.cache)
                             ELSE lastPriorityFeeEstimate
                      /\ writes' = IF written
                                   THEN Append(writes, [cache |-> "priorityFee", task |-> t,
                                                        entry |-> r.cache])
                                   ELSE writes
                      /\ estimation' = [estimation EXCEPT ![t] =
                             [call EXCEPT !.pc = "done", !.served = r.served, !.value = r.value]]
                      /\ UNCHANGED <<lastGasPriceEstimate, cachedBy>>
    /\ UNCHANGED <<now, ethConfig, feeReturn, engVars, bldVars, instVars, afterConcVars>>


----------------------------------------------------------------------------
(* Settlement: Ethereum.handleTransactionConfirmation,                     *)
(* Solana.handleConfirmation, Solana.extractBalanceChangesAndFee           *)

\* Amounts are integers: the Ethereum fee in gwei, effectiveGasPrice being
\* counted in gwei (the code divides the product in wei by 1e18 for
\* display), lamports for the Solana fee and
\* the SOL balances (multiplied by LAMPORT_TO_SOL for display), and token
\* units of the mint for the token balances.

NoSettleCall == [chain |-> "none"]

\* kind: "returned" | "threw"; status 1 CONFIRMED, 0 PENDING, -1 FAILED;
\* data: <<>> for undefined
NoSettlement == [kind |-> "none", status |-> 0, data |-> <<>>]
SettlementReturn(status, data) == [kind |-> "returned", status |-> status, data |-> data]
SettlementThrow == [kind |-> "threw", status |-> 0, data |-> <<>>]

SettlementData(amountIn, amountOut, fee, base, quote) ==
    [amountIn |-> amountIn, amountOut |-> amountOut, fee |-> fee,
     baseTokenBalanceChange |-> base, quoteTokenBalanceChange |-> quote]

Sides == {"none", "BUY", "SELL"}
Abs(x) == IF x < 0 THEN -x ELSE x

\* Ethereum.handleTransactionConfirmation(txReceipt, inputToken, outputToken,
\* expectedAmountIn, expectedAmountOut, side); txReceipt is <<>> for null,
\* its status <<>> for undefined
HandleTransactionConfirmation(txReceipt, expectedAmountIn, expectedAmountOut, side) ==
    IF txReceipt = <<>> THEN SettlementReturn(0, <<>>)
    ELSE LET receipt == txReceipt[1]
         IN  IF receipt.status = <<0>>
             THEN SettlementReturn(-1, <<SettlementData(0, 0, 0, 0, 0)>>)
             ELSE IF receipt.status = <<1>>
             THEN LET fee == receipt.gasUsed * receipt.effectiveGasPrice
                      base == IF side = "none" THEN -expectedAmountIn
                              ELSE IF side = "SELL" THEN -expectedAmountIn
                              ELSE expectedAmountOut
                      quote == IF side = "none" THEN expectedAmountOut
                               ELSE IF side = "SELL" THEN expectedAmountOut
                               ELSE -expectedAmountIn
                  IN  SettlementReturn(1, <<SettlementData(expectedAmountIn, expectedAmountOut,
                                                   fee, base, quote)>>)
             ELSE SettlementReturn(0, <<SettlementData(0, 0, 0, 0, 0)>>)

\* The receipts handed to handleTransactionConfirmation
Receipts ==
    {<<>>} \cup {<<r>> : r \in [status : Opt({0, 1}), gasUsed : {21000, 150000},
                                effectiveGasPrice : {1, 30}]}
ExpectedAmounts == {1000000, 2500000}

\* Solana.getFee(txData); txData is <<>> for null, its meta <<>> when absent
GetFee(txData) ==
    IF txData = <<>> THEN 0
    ELSE IF txData[1].meta = <<>> THEN 0
    ELSE txData[1].meta[1].fee

NativeMint == "So11111111111111111111111111111111111111112"
Mints == {NativeMint, "USDC"}

\* Solana.extractBalanceChangesAndFee(signature, owner, tokens); txDetails is
\* what getParsedTransaction answers, <<>> for null. A token balance the
\* record does not list counts as 0.
ExtractBalanceChangesAndFee(txDetails, tokens) ==
    IF txDetails = <<>> THEN [threw |-> TRUE, balanceChanges |-> <<>>, fee |-> 0]
    ELSE LET d == txDetails[1]
             Change(token) ==
                 IF token = NativeMint
                 THEN IF ~d.ownerInAccounts THEN 0 ELSE d.postBalance - d.preBalance
                 ELSE (IF IsDef(d.postTokenBalance) THEN Val(d.postTokenBalance) ELSE 0)
                      - (IF IsDef(d.preTokenBalance) THEN Val(d.preTokenBalance) ELSE 0)
         IN  [threw |-> FALSE,
              balanceChanges |-> [i \in 1..Len(tokens) |-> Change(tokens[i])],
              fee |-> d.fee]

\* Solana.handleConfirmation(signature, confirmed, txData, tokenIn, tokenOut,
\* walletAddress, side) with the data it returns (HandleConfirmation above
\* keeps the status only)
HandleConfirmationData(confirmed, txData, txDetails, tokenIn, tokenOut, side) ==
    IF confirmed /\ txData # <<>>
    THEN LET x == ExtractBalanceChangesAndFee(txDetails, <<tokenIn, tokenOut>>)
         IN  IF x.threw THEN SettlementThrow
             ELSE LET inputChange == x.balanceChanges[1]
                      outputChange == x.balanceChanges[2]
                      base == IF side = "none" THEN inputChange
                              ELSE IF side = "SELL" THEN inputChange ELSE outputChange
                      quote == IF side = "none" THEN outputChange
                               ELSE IF side = "SELL" THEN outputChange ELSE inputChange
                  IN  SettlementReturn(1, <<SettlementData(Abs(inputChange), Abs(outputChange),
                                                   x.fee, base, quote)>>)
    ELSE IF txData # <<>> /\ ~confirmed
    THEN SettlementReturn(-1, <<SettlementData(0, 0, GetFee(txData), 0, 0)>>)
    ELSE SettlementReturn(0, <<>>)

\* What getTransaction and getParsedTransaction answer for the signature:
\* the fee of the transaction is the same in both records, and err is set
\* when the transaction reverted
LamportFees == {5000, 25000}
TxDatas ==
    {<<>>} \cup {<<[meta |-> <<>>]>>}
           \cup {<<[meta |-> <<[fee |-> f, err |-> e]>>]>> : f \in LamportFees, e \in BOOLEAN}
TxFee(txData) == IF txData # <<>> /\ txData[1].meta # <<>> THEN {txData[1].meta[1].fee}
                 ELSE LamportFees
ParsedTransactions(txData) ==
    {<<>>} \cup {<<d>> : d \in [fee : TxFee(txData), ownerInAccounts : BOOLEAN,
                                preBalance : {2000000000},
                                postBalance : {1999995000, 1000000000},
                                preTokenBalance : {<<5000000>>},
                                postTokenBalance : {<<>>, <<2000000>>}]}

\* A caller settles a transaction on Ethereum. received is what the swap
\* paid out on chain (post-balance minus pre-balance of the output token),
\* which the quote only estimates; the function is not handed it.
SettleEthereum ==
    /\ \E txReceipt \in Receipts, amountIn \in ExpectedAmounts, amountOut \in ExpectedAmounts,
          side \in Sides, received \in ExpectedAmounts :
         /\ settleCall' = [chain |-> "ethereum", txReceipt |-> txReceipt,
                           expectedAmountIn |-> amountIn, expectedAmountOut |-> amountOut,
                           side |-> side, received |-> received]
         /\ settlement' = HandleTransactionConfirmation(txReceipt, amountIn, amountOut, side)
    /\ UNCHANGED <<feeVars, engVars, bldVars, instVars, concVars, afterSetVars>>

\* A caller settles a transaction on Solana
SettleSolana ==
    /\ \E confirmed \in BOOLEAN, txData \in TxDatas, tokenIn \in Mints, side \in Sides :
         \E txDetails \in ParsedTransactions(txData), tokenOut \in Mints \ {tokenIn} :
             /\ settleCall' = [chain |-> "solana", confirmed |-> confirmed, txData |-> txData,
                               txDetails |-> txDetails, tokenIn |-> tokenIn,
                               tokenOut |-> tokenOut, side |-> side]
             /\ settlement' = HandleConfirmationData(confirmed, txData, txDetails,
                                                 tokenIn, tokenOut, side)
    /\ UNCHANGED <<feeVars, engVars, bldVars, instVars, concVars, afterSetVars>>

----------------------------------------------------------------------------
(* The sources of Ethereum.estimateGasPrice *)

NoSettings == [minGasPrice |-> <<>>, fees |-> <<Undefined, Undefined>>, etherscan |-> FALSE]
NoConsultation ==
    [settings |-> [n \in EthNetworks |-> NoSettings], network |-> "none",
     answers |-> <<>>, consulted |-> <<>>, served |-> "none", value |-> 0,
     entry |-> NoEstimate]

\* config.minGasPrice as the configuration file may carry it
SourceMinGasPrices == {<<>>, <<0>>, <<300000000>>}
SourceConfigFees == {<<Undefined, Undefined>>, <<(<<400000000>>), (<<50000000>>)>>}

\* What each source answers to a call: "none" for a fee oracle the instance
\* has no service for
Answers(inst, up) ==
    [up EXCEPT !.etherscan = IF inst.hasEtherscan THEN @ ELSE "none",
               !.scanMaxFee = IF inst.hasEtherscan THEN @ ELSE 0]

\* Consulted asking the RPC fee data whatever the fee oracle answered
ConsultedFeeDataAlways(inst, cache, t, up) ==
    IF CacheFresh(cache, t, GAS_PRICE_CACHE_MS) THEN <<>>
    ELSE LET eip == SupportsEIP1559(inst.network)
         IN  (IF eip /\ inst.hasEtherscan THEN <<"oracle">> ELSE <<>>)
             \o (IF eip THEN <<"feeData">> ELSE <<>>)
             \o (IF ~eip \/ ~EIP1559Fees(inst, up).ok THEN <<"gasPrice">> ELSE <<>>)

\* The sources one estimateGasPrice() call asks, in the order of the calls:
\* "oracle" (line 161, when the instance has the service), "feeData" (line
\* 177, when the oracle gave no values), "gasPrice" (line 246, on a legacy
\* network or after the throw of line 216); none on a cache hit
Consulted(inst, cache, t, up) ==
    IF CacheFresh(cache, t, GAS_PRICE_CACHE_MS) THEN <<>>
    ELSE LET eip == SupportsEIP1559(inst.network)
             scanOk == inst.hasEtherscan /\ up.etherscan = "ok"
         IN  (IF eip /\ inst.hasEtherscan THEN <<"oracle">> ELSE <<>>)
             \o (IF eip /\ ~scanOk THEN <<"feeData">> ELSE <<>>)
             \o (IF ~eip \/ ~EIP1559Fees(inst, up).ok THEN <<"gasPrice">> ELSE <<>>)

\* One estimateGasPrice() call on the instance of network n, recorded with
\* the answers of the sources
ConsultSources(n) ==
    /\ \E up \in EthUpstreams :
         LET inst == ethConfig[n]
             r == EstimateGasPriceResult(inst, lastGasPriceEstimate, now, up)
         IN  /\ CallEstimateGasPrice(n, up, r)
             /\ consultation' = [consultation EXCEPT
                    !.network = n, !.answers = <<Answers(inst, up)>>,
                    !.consulted = Consulted(inst, lastGasPriceEstimate, now, up),
                    !.served = r.served, !.value = r.value,
                    !.entry = IF r.served = "estimate" THEN r.cache ELSE NoEstimate]
    /\ UNCHANGED <<now, ethConfig, lastPriorityFeeEstimate, engVars, bldVars, instVars,
                   concVars, setVars, afterSrcVars>>

----------------------------------------------------------------------------
(* Routes *)

\* A message is the sequence of its fragments; a pattern is a sequence of
\* fragments too, and String.includes is a search for a contiguous run.
Includes(message, pattern) ==
    \E i \in 1..(Len(message) - Len(pattern) + 1) :
        SubSeq(message, i, i + Len(pattern) - 1) = pattern

\* new Error(message): an exception without a statusCode
Error(message) == [statusCode |-> 0, message |-> message]

\* fastify.httpErrors.*: an exception that carries its HTTP status
BadRequest(message) == [statusCode |-> 400, message |-> message]
NotFound(message) == [statusCode |-> 404, message |-> message]
InternalServerError(message) == [statusCode |-> 500, message |-> message]

NoRouteCall == [route |-> "none", request |-> <<>>, upstream |-> <<>>, escaped |-> <<>>]
NoReply == [statusCode |-> 0, message |-> <<>>]

\* The answer to a request whose handler returned (thrown is <<>>) or threw
Reply(thrown) ==
    IF thrown = <<>> THEN [statusCode |-> 200, message |-> <<>>]
    ELSE [statusCode |-> IF thrown[1].statusCode # 0 THEN thrown[1].statusCode ELSE 500,
          message |-> thrown[1].message]

\* The token list of the network: ethereum.getToken finds a token by its
\* symbol or by its address
GetToken(symbolOrAddress) ==
    LET tokenList == {[symbol |-> "WETC", address |-> "0xWETC"],
                      [symbol |-> "USC", address |-> "0xUSC"],
                      [symbol |-> "DAI", address |-> "0xDAI"]}
        found == {t \in tokenList : symbolOrAddress \in {t.symbol, t.address}}
    IN  IF found = {} THEN <<>> ELSE <<CHOOSE t \in found : TRUE>>

\* The tokens of the pool 0xpool
PoolBaseTokenAddress == "0xWETC"
PoolQuoteTokenAddress == "0xUSC"

\* The message of an exception of the provider
RpcErrorMessage == <<"could not detect network (event=", "noNetwork", ", code=NETWORK_ERROR)">>

\* formatSwapQuote, which re-throws what getETCSwapAmmQuote and the
\* quoteAmmSwap it calls throw: <<>> when a quote was computed, else the
\* exception thrown
FormatSwapQuote(baseToken, quoteToken, outcome) ==
    LET baseTokenObj == GetToken(baseToken)
        quoteTokenObj == GetToken(quoteToken)
        pair == <<baseTokenObj[1].symbol, "-", quoteTokenObj[1].symbol>>
    IN  IF baseTokenObj = <<>> THEN <<Error(<<"Base ", "token not found", ": ", baseToken>>)>>
        ELSE IF quoteTokenObj = <<>>
        THEN <<Error(<<"Quote ", "token not found", ": ", quoteToken>>)>>
        ELSE CASE outcome = "pairMissing" -> <<Error(<<"Pool not found", " for ">> \o pair)>>
               [] outcome = "insufficientReserves" ->
                      <<Error(<<"Insufficient liquidity", " in pool for ">> \o pair)>>
               [] outcome = "rpcError" -> <<Error(RpcErrorMessage)>>
               [] OTHER -> <<>>

\* The body of the quote-swap handler's try block: the exception that
\* escapes it, or <<>>
QuoteSwapLogic(query, up) ==
    IF query.baseToken = "" \/ query.amount = 0 \/ query.side = ""
    THEN <<BadRequest(<<"baseToken, amount, and side are required">>)>>
    ELSE IF query.poolAddress # ""
    THEN IF ~up.pool
         THEN <<NotFound(<<"Pool not found", ": ", query.poolAddress>>)>>
         ELSE LET resolvedToken == GetToken(query.baseToken)
                  notInPool == <<BadRequest(<<"Token ", query.baseToken, " not found in pool ",
                                              query.poolAddress>>)>>
              IN  IF query.baseToken = PoolBaseTokenAddress
                  THEN FormatSwapQuote(PoolBaseTokenAddress, PoolQuoteTokenAddress, up.quote)
                  ELSE IF query.baseToken = PoolQuoteTokenAddress
                  THEN FormatSwapQuote(PoolQuoteTokenAddress, PoolBaseTokenAddress, up.quote)
                  ELSE IF resolvedToken # <<>>
                  THEN IF resolvedToken[1].address = PoolBaseTokenAddress
                       THEN FormatSwapQuote(PoolBaseTokenAddress, PoolQuoteTokenAddress,
                                            up.quote)
                       ELSE IF resolvedToken[1].address = PoolQuoteTokenAddress
                       THEN FormatSwapQuote(PoolQuoteTokenAddress, PoolBaseTokenAddress,
                                            up.quote)
                       ELSE notInPool
                  ELSE notInPool
    ELSE IF query.quoteToken = ""
    THEN <<BadRequest(<<"quoteToken is required when poolAddress is not provided">>)>>
    ELSE IF ~up.pool
    THEN <<NotFound(<<"No AMM pool found", " for pair ", query.baseToken, "-",
                      query.quoteToken>>)>>
    ELSE FormatSwapQuote(query.baseToken, query.quoteToken, up.quote)

\* The catch block of the quote-swap handler
QuoteSwapCatch(e) ==
    IF e.statusCode # 0 THEN e
    ELSE IF Includes(e.message, <<"Insufficient liquidity">>)
    THEN BadRequest(<<"Invalid request">>)
    ELSE IF Includes(e.message, <<"Pool not found">>)
               \/ Includes(e.message, <<"No AMM pool found">>)
    THEN NotFound(<<"Resource not found">>)
    ELSE IF Includes(e.message, <<"token not found">>)
    THEN BadRequest(<<"Invalid request">>)
    ELSE InternalServerError(<<"Error getting swap quote">>)

\* GET /quote-swap of the ETCSwap AMM connector. Of what the handler
\* finds, pool is whether the pool of the request exists (getETCSwapPoolInfo
\* finds it, findDefaultPool has one for the pair) and quote is what the
\* chain and the SDK answer while the quote is computed
QuoteSwapRoute ==
    \E query \in [poolAddress : {"", "0xpool"},
                  baseToken : {"WETC", "0xUSC", "DAI", "INVALID"},
                  quoteToken : {"", "USC", "INVALID"}, amount : {0, 1}, side : {"SELL"}],
       up \in [pool : BOOLEAN,
              quote : {"ok", "pairMissing", "insufficientReserves", "rpcError"}] :
        LET escaped == QuoteSwapLogic(query, up)
        IN  /\ routeCall' = [route |-> "quoteSwap", request |-> query, upstream |-> up,
                             escaped |-> escaped]
            /\ routeReply' = Reply(IF escaped = <<>> THEN <<>>
                                   ELSE <<QuoteSwapCatch(escaped[1])>>)
            /\ routeEffects' = <<>>
            /\ UNCHANGED <<feeVars, engVars, bldVars, instVars, concVars, setVars, srcVars,
                         afterRouteVars>>

\* The body of the pool-info handler's try block (ETCSwap CLMM)
PoolInfoLogic(query, up) ==
    IF up.instance = "rpcError" THEN <<Error(RpcErrorMessage)>>
    ELSE IF query.poolAddress = "" THEN <<BadRequest(<<"Pool address is required">>)>>
    ELSE IF ~up.poolInfo THEN <<NotFound(<<"Pool not found", ": ", query.poolAddress>>)>>
    ELSE IF ~up.tokensListed THEN <<BadRequest(<<"Token information not found for pool">>)>>
    ELSE IF ~up.v3Pool THEN <<NotFound(<<"Pool not found">>)>>
    ELSE <<>>

\* The catch block of the pool-info handler
PoolInfoCatch(e) == InternalServerError(<<"Failed to fetch pool info">>)

\* GET /pool-info of the ETCSwap CLMM connector
PoolInfoRoute ==
    \E query \in [poolAddress : {"", "0xpool", "0xother"}],
       up \in [instance : {"ok", "rpcError"}, poolInfo : BOOLEAN, tokensListed : BOOLEAN,
              v3Pool : BOOLEAN] :
        LET escaped == PoolInfoLogic(query, up)
        IN  /\ routeCall' = [route |-> "poolInfo", request |-> query, upstream |-> up,
                             escaped |-> escaped]
            /\ routeReply' = Reply(IF escaped = <<>> THEN <<>>
                                   ELSE <<PoolInfoCatch(escaped[1])>>)
            /\ routeEffects' = <<>>
            /\ UNCHANGED <<feeVars, engVars, bldVars, instVars, concVars, setVars, srcVars,
                         afterRouteVars>>

\* String.toLowerCase, fragment by fragment: the fragments of this model
\* that hold a capital letter of a word the code looks for in lower case
ToLowerCase(message) ==
    [i \in DOMAIN message |-> CASE message[i] = "Insufficient" -> "insufficient"
                                [] message[i] = "Funds" -> "funds"
                                [] OTHER -> message[i]]

\* Lines a program writes to the simulation's log
ProgramLogs ==
    {<<"Program log: AnchorError occurred. ", "Error Code: ", "TooLittleOutputReceived",
       ". Error Number: 6022.">>,
     <<"Program failed: ", "custom program error: ", "0x1786">>,
     <<"Program log: AnchorError occurred. ", "Error Code: ", "TooMuchInputPaid",
       ". Error Number: 6023.">>,
     <<"Program failed: ", "custom program error: ", "0x1787">>,
     <<"Program log: AnchorError occurred. ", "Error Code: ", "SqrtPriceLimitOverflow",
       ". Error Number: 6013.">>,
     <<"Program failed: ", "custom program error: ", "0x177d">>,
     <<"Transfer: ", "insufficient", " lamports 100, need 200">>,
     <<"Program log: Error: ", "Insufficient", "Funds">>,
     <<"Program log: Error: ", "Insufficient", " liquidity">>,
     <<"Program log: Error: ", "AccountNotFound">>,
     <<"Program log: min output ", "TooLittleOutputReceived">>,
     <<"Program 11111111111111111111111111111111 invoke [1]">>}

\* logs.join('\n')
RECURSIVE Join(_)
Join(logs) ==
    IF logs = <<>> THEN <<>>
    ELSE IF Len(logs) = 1 THEN logs[1]
    ELSE logs[1] \o <<"\n">> \o Join(Tail(logs))

\* The exceptions simulateTransaction throws: SIMULATION_ERROR_MESSAGE
\* with the simulation's err, as JSON.stringify writes it, and the program
\* logs; or what the connection threw
SimulationErrors ==
    {Error(<<"Transaction simulation failed: ", "\nError: ">> \o err
             \o <<"\nProgram Logs: ">> \o Join(logs)) :
        err \in {<<"{\"InstructionError\":[2,{\"Custom\":6022}]}">>,
                 <<"\"", "AccountNotFound", "\"">>},
        logs \in {<<>>} \cup {<<l>> : l \in ProgramLogs}
                  \cup {p \in ProgramLogs \X ProgramLogs : p[1] # p[2]}}
    \cup {Error(<<"failed to get info about account">>), Error(<<>>)}

\* simulateWithErrorHandling with the insufficient-funds test made first
SimulateWithErrorHandlingFundsFirst(simulationError) ==
    LET errorMessage == simulationError.message
    IN  IF Includes(errorMessage, <<"Insufficient", "Funds">>)
            \/ Includes(ToLowerCase(errorMessage), <<"insufficient">>)
        THEN BadRequest(<<"Swap failed: Insufficient funds. Please check your token balance.">>)
        ELSE IF Includes(errorMessage, <<"Error Code: ", "TooLittleOutputReceived">>)
            \/ Includes(errorMessage, <<"custom program error: ", "0x1786">>)
        THEN BadRequest(<<"Swap failed: Slippage tolerance exceeded. Output would be less than your minimum. Consider increasing slippage.">>)
        ELSE IF Includes(errorMessage, <<"Error Code: ", "TooMuchInputPaid">>)
            \/ Includes(errorMessage, <<"custom program error: ", "0x1787">>)
        THEN BadRequest(<<"Swap failed: Slippage tolerance exceeded. Input would be more than your maximum. Consider increasing slippage.">>)
        ELSE IF Includes(errorMessage, <<"SqrtPriceLimitOverflow">>)
            \/ Includes(errorMessage, <<"custom program error: ", "0x177d">>)
        THEN BadRequest(<<"Swap failed: Square root price limit overflow. Adjust price limit/direction or retry with default limits.">>)
        ELSE IF Includes(errorMessage, <<"AccountNotFound">>)
        THEN BadRequest(<<"Swap failed: One or more required accounts not found. The pool or token accounts may not be initialized.">>)
        ELSE BadRequest(<<"Transaction simulation failed. This usually means the swap parameters are invalid or market conditions changed. Try again.">>)

\* The catch block of simulateWithErrorHandling: the error thrown for the
\* exception simulateTransaction threw
SimulateWithErrorHandling(simulationError) ==
    LET errorMessage == simulationError.message
    IN  IF Includes(errorMessage, <<"Error Code: ", "TooLittleOutputReceived">>)
            \/ Includes(errorMessage, <<"custom program error: ", "0x1786">>)
        THEN BadRequest(<<"Swap failed: Slippage tolerance exceeded. Output would be less than your minimum. Consider increasing slippage.">>)
        ELSE IF Includes(errorMessage, <<"Error Code: ", "TooMuchInputPaid">>)
            \/ Includes(errorMessage, <<"custom program error: ", "0x1787">>)
        THEN BadRequest(<<"Swap failed: Slippage tolerance exceeded. Input would be more than your maximum. Consider increasing slippage.">>)
        ELSE IF Includes(errorMessage, <<"SqrtPriceLimitOverflow">>)
            \/ Includes(errorMessage, <<"custom program error: ", "0x177d">>)
        THEN BadRequest(<<"Swap failed: Square root price limit overflow. Adjust price limit/direction or retry with default limits.">>)
        ELSE IF Includes(errorMessage, <<"Insufficient", "Funds">>)
            \/ Includes(ToLowerCase(errorMessage), <<"insufficient">>)
        THEN BadRequest(<<"Swap failed: Insufficient funds. Please check your token balance.">>)
        ELSE IF Includes(errorMessage, <<"AccountNotFound">>)
        THEN BadRequest(<<"Swap failed: One or more required accounts not found. The pool or token accounts may not be initialized.">>)
        ELSE BadRequest(<<"Transaction simulation failed. This usually means the swap parameters are invalid or market conditions changed. Try again.">>)

\* A caller simulates a transaction that fails and lets the error thrown
\* reach the client
Simulate ==
    \E simulationError \in SimulationErrors :
        /\ routeCall' = [route |-> "simulate", request |-> <<>>, upstream |-> <<>>,
                         escaped |-> <<simulationError>>]
        /\ routeReply' = Reply(<<SimulateWithErrorHandling(simulationError)>>)
        /\ routeEffects' = <<>>
        /\ UNCHANGED <<feeVars, engVars, bldVars, instVars, concVars, setVars, srcVars,
                         afterRouteVars>>

\* executeQuote of the ETCSwap router: the exception thrown and the
\* transactions sent
ExecuteQuote(up) ==
    IF ~up.cached
    THEN [thrown |-> <<BadRequest(<<"Quote not found or expired">>)>>, sent |-> <<>>]
    ELSE IF up.wallet = "notFound"
    THEN [thrown |-> <<Error(<<"Wallet not found for address: ", "0xwallet">>)>>,
          sent |-> <<>>]
    ELSE IF up.send = "rpcError"
    THEN [thrown |-> <<Error(RpcErrorMessage)>>, sent |-> <<>>]
    ELSE IF up.send = "noMessage"
    THEN [thrown |-> <<Error(<<>>)>>, sent |-> <<>>]
    ELSE IF up.receiptStatus # 1
    THEN [thrown |-> <<InternalServerError(<<"Transaction failed">>)>>, sent |-> <<"swap">>]
    ELSE [thrown |-> <<>>, sent |-> <<"swap">>]

\* The catch block of the execute-quote handler
ExecuteQuoteCatch(e) ==
    IF e.statusCode # 0 THEN e
    ELSE InternalServerError(IF e.message # <<>> THEN e.message
                             ELSE <<"Internal server error">>)

\* POST /execute-quote of the ETCSwap router connector
ExecuteQuoteRoute ==
    \E up \in [cached : BOOLEAN, wallet : {"ok", "notFound"},
                send : {"ok", "rpcError", "noMessage"}, receiptStatus : {0, 1}] :
        LET r == ExecuteQuote(up)
        IN  /\ routeCall' = [route |-> "executeQuote", request |-> <<>>, upstream |-> up,
                             escaped |-> r.thrown]
            /\ routeReply' = Reply(IF r.thrown = <<>> THEN <<>>
                                   ELSE <<ExecuteQuoteCatch(r.thrown[1])>>)
            /\ routeEffects' = r.sent
            /\ UNCHANGED <<feeVars, engVars, bldVars, instVars, concVars, setVars, srcVars,
                         afterRouteVars>>

\* closePosition: the exception thrown and the transactions sent
ClosePosition(up) ==
    IF up.wallet = "notFound"
    THEN [thrown |-> <<Error(<<"Wallet not found for address: ", "wallet1">>)>>,
          sent |-> <<>>]
    ELSE IF ~up.position
    THEN [thrown |-> <<NotFound(<<"Position not found: ", "position1">>)>>, sent |-> <<>>]
    ELSE IF up.simulation # <<>>
    THEN [thrown |-> <<SimulateWithErrorHandling(up.simulation[1])>>, sent |-> <<>>]
    ELSE IF up.send = "rpcError"
    THEN [thrown |-> <<Error(RpcErrorMessage)>>, sent |-> <<>>]
    ELSE [thrown |-> <<>>, sent |-> <<"closePosition">>]

\* The catch block of the close-position handler
ClosePositionCatch(e) ==
    IF e.statusCode # 0 THEN [statusCode |-> e.statusCode, message |-> <<"Request failed">>]
    ELSE InternalServerError(<<"Internal server error">>)

\* POST /close-position
ClosePositionRoute ==
    \E up \in [wallet : {"ok", "notFound"}, position : BOOLEAN,
                simulation : {<<>>, <<Error(<<"failed to get info about account">>)>>},
                send : {"ok", "rpcError"}] :
        LET r == ClosePosition(up)
        IN  /\ routeCall' = [route |-> "closePosition", request |-> <<>>, upstream |-> up,
                             escaped |-> r.thrown]
            /\ routeReply' = Reply(IF r.thrown = <<>> THEN <<>>
                                   ELSE <<ClosePositionCatch(r.thrown[1])>>)
            /\ routeEffects' = r.sent
            /\ UNCHANGED <<feeVars, engVars, bldVars, instVars, concVars, setVars, srcVars,
                         afterRouteVars>>

\* The tokens of a position's pool
LiquidityTokens ==
    {[symbol |-> "WETC", address |-> "0xWETC", decimals |-> 6],
     [symbol |-> "USC", address |-> "0xUSC", decimals |-> 6],
     [symbol |-> "DAI", address |-> "0xDAI", decimals |-> 6]}

\* formatTokenAmount: the raw amount in units of the token (the raw
\* amounts of this model are whole numbers of units)
FormatTokenAmount(amount, decimals) == amount \div (10 ^ decimals)

\* BigNumber.lt
LtOnlyZero(currentAllowance, requiredAmount) == currentAllowance = 0
Lt(currentAllowance, requiredAmount) == currentAllowance < requiredAmount

\* The error thrown for an allowance below the required amount
InsufficientAllowance(operation, token, requiredAmount) ==
    BadRequest(<<"Insufficient ", token.symbol, " allowance. Please approve at least ",
                 ToString(FormatTokenAmount(requiredAmount, token.decimals)), " ",
                 token.symbol>>
               \o (IF operation = "openPosition" THEN <<" (", token.address, ")">> ELSE <<>>)
               \o <<" for the Position Manager (", "0xpositionManager", ")">>)

\* Whether the route reads the allowance of a token: for every token with
\* a non-zero amount when a position is opened, and for those of them
\* that are not WETC when liquidity is added
ChecksAllowance(operation, token, tokenAmount) ==
    /\ tokenAmount # 0
    /\ operation = "addLiquidity" => token.symbol # "WETC"

\* The body of the handler's try block from its validation to the
\* multicall: the exception thrown with its code, and the transactions sent
LiquidityLogic(operation, body, up) ==
    LET low(i) == /\ ChecksAllowance(operation, body.tokens[i], body.amounts[i])
                  /\ Lt(up.allowances[i], body.amounts[i])
        \* the allowance checks of token0 and then token1
        allowanceError ==
            IF low(1) THEN <<InsufficientAllowance(operation, body.tokens[1], body.amounts[1])>>
            ELSE IF low(2)
            THEN <<InsufficientAllowance(operation, body.tokens[2], body.amounts[2])>>
            ELSE <<>>
        failed(e, code) == [thrown |-> <<e>>, code |-> code, sent |-> <<>>]
    IN  CASE up.early = "poolNotFound" ->
                 failed(NotFound(<<"Pool not found for position">>), "")
          [] OTHER ->
                 IF allowanceError # <<>> THEN failed(allowanceError[1], "")
                 ELSE CASE up.multicall = "callException" ->
                               failed(Error(<<"cannot estimate gas; transaction may fail">>),
                                      "CALL_EXCEPTION")
                        [] up.multicall = "insufficientFunds" ->
                               failed(Error(<<"insufficient funds", " for intrinsic transaction cost">>),
                                      "INSUFFICIENT_FUNDS")
                        [] OTHER ->
                               IF operation = "openPosition" /\ up.multicall = "reverted"
                               THEN [thrown |-> <<Error(<<"transaction failed">>)>>,
                                     code |-> "CALL_EXCEPTION", sent |-> <<"multicall">>]
                               ELSE [thrown |-> <<>>, code |-> "", sent |-> <<"multicall">>]

\* The catch block of the add-liquidity handler
AddLiquidityCatch(e) ==
    IF e.statusCode # 0 THEN e ELSE InternalServerError(<<"Failed to add liquidity">>)

\* The catch block of the open-position handler
OpenPositionCatch(e, code) ==
    IF e.statusCode # 0 THEN e
    ELSE IF code = "CALL_EXCEPTION"
    THEN BadRequest(<<"Transaction failed. Please check token balances, approvals, and position parameters.">>)
    ELSE IF Includes(e.message, <<"Insufficient">>) /\ Includes(e.message, <<"allowance">>)
    THEN BadRequest(<<"Invalid request">>)
    ELSE IF code = "INSUFFICIENT_FUNDS" \/ Includes(e.message, <<"insufficient funds">>)
    THEN BadRequest(<<"Insufficient funds to complete the transaction">>)
    ELSE InternalServerError(<<"Failed to open position">>)

LiquidityBodies ==
    [tokens : {p \in LiquidityTokens \X LiquidityTokens :
                   <<p[1].symbol, p[2].symbol>> \in {<<"WETC", "USC">>, <<"USC", "DAI">>}},
     amounts : {0, 10000000} \X {0, 10000000}]

LiquidityUpstreams ==
    [early : {"ok", "poolNotFound"},
     allowances : {0, 10000000} \X {0, 5000000, 10000000},
     multicall : {"ok", "callException", "insufficientFunds", "reverted"}]

\* POST /add-liquidity of the ETCSwap CLMM connector
AddLiquidityRoute ==
    \E body \in LiquidityBodies, up \in LiquidityUpstreams :
        LET r == LiquidityLogic("addLiquidity", body, up)
        IN  /\ routeCall' = [route |-> "addLiquidity", request |-> body, upstream |-> up,
                             escaped |-> r.thrown]
            /\ routeReply' = Reply(IF r.thrown = <<>> THEN <<>>
                                   ELSE <<AddLiquidityCatch(r.thrown[1])>>)
            /\ routeEffects' = r.sent
            /\ UNCHANGED <<feeVars, engVars, bldVars, instVars, concVars, setVars, srcVars,
                         afterRouteVars>>

\* POST /open-position of the PancakeSwap CLMM connector
OpenPositionRoute ==
    \E body \in LiquidityBodies, up \in LiquidityUpstreams :
        LET r == LiquidityLogic("openPosition", body, up)
        IN  /\ routeCall' = [route |-> "openPosition", request |-> body, upstream |-> up,
                             escaped |-> r.thrown]
            /\ routeReply' = Reply(IF r.thrown = <<>> THEN <<>>
                                   ELSE <<OpenPositionCatch(r.thrown[1], r.code)>>)
            /\ routeEffects' = r.sent
            /\ UNCHANGED <<feeVars, engVars, bldVars, instVars, concVars, setVars, srcVars,
                         afterRouteVars>>

----------------------------------------------------------------------------
(* Swap quotes *)

\* Amounts of tokens are counted in millionths of a token and the tokens
\* of the pool have 6 decimals, so that formatTokenAmount(raw, 6) of a raw
\* amount is that many millionths. Slippage percentages are counted in
\* thousandths of a percent.

NoSwapQuote == [connector |-> "none"]

\* Math.floor(amount * Math.pow(10, 6)): the product of the doubles 2.01
\* and 10^6 is 2009999.9999999998, the products of 0.5, 1.25 and 2 with
\* 10^6 are exact
FloorOfScaled(amount) == IF amount = 2010000 THEN 2009999 ELSE amount

\* The trade the SDK computes over the pool: the output for an exact input
\* and the input for an exact output, with the pool's fee of 0.3%
TradeAmounts(exactIn, rawAmount) ==
    IF exactIn THEN [inputAmount |-> rawAmount, outputAmount |-> (rawAmount * 997) \div 1000]
    ELSE [inputAmount |-> (rawAmount \div 997) * 1000 + 1, outputAmount |-> rawAmount]

\* quoteAmmSwap, and quoteClmmSwap which computes the same from a V3 pool
QuoteAmmSwap(baseToken, quoteToken, amount, side, slippagePct, configSlippagePct) ==
    LET exactIn == side = "SELL"
        inputToken == IF exactIn THEN baseToken ELSE quoteToken
        outputToken == IF exactIn THEN quoteToken ELSE baseToken
        trade == TradeAmounts(exactIn, FloorOfScaled(amount))
        \* new Percent(Math.floor((slippagePct ?? config.slippagePct) * 100), 10000)
        slippageTolerance ==
            (IF slippagePct # <<>> THEN slippagePct[1] ELSE configSlippagePct) \div 10
        minAmountOut ==
            IF exactIn
            THEN trade.outputAmount
                     - (trade.outputAmount * slippageTolerance) \div (10000 + slippageTolerance)
            ELSE trade.outputAmount
        maxAmountIn ==
            IF exactIn THEN trade.inputAmount
            ELSE trade.inputAmount + (trade.inputAmount * slippageTolerance) \div 10000
    IN  [estimatedAmountIn |-> trade.inputAmount, estimatedAmountOut |-> trade.outputAmount,
         minAmountOut |-> minAmountOut, maxAmountIn |-> maxAmountIn,
         inputToken |-> inputToken, outputToken |-> outputToken,
         slippageTolerance |-> slippageTolerance]

\* The response formatSwapQuote makes of a quote
FormatQuoteResponse(quote, slippagePct) ==
    [tokenIn |-> quote.inputToken, tokenOut |-> quote.outputToken,
     amountIn |-> quote.estimatedAmountIn, amountOut |-> quote.estimatedAmountOut,
     slippagePct |-> IF slippagePct # <<>> /\ slippagePct[1] # 0 THEN slippagePct[1] ELSE 1000,
     minAmountOut |-> quote.minAmountOut, maxAmountIn |-> quote.maxAmountIn]

\* A swap quote of an AMM or a CLMM connector for the pool of 0xUSC (base)
\* and 0xUSDT (quote)
QuoteSwap ==
    \E connector \in {"amm", "clmm"}, amount \in {500000, 1250000, 2000000, 2010000},
       side \in {"BUY", "SELL"}, slippagePct \in {<<>>, <<0>>, <<500>>, <<1000>>},
       configSlippagePct \in {1000, 2000} :
        LET quote == QuoteAmmSwap("0xUSC", "0xUSDT", amount, side, slippagePct,
                                  configSlippagePct)
        IN  /\ swapQuote' = [connector |-> connector,
                             request |-> [baseToken |-> "0xUSC", quoteToken |-> "0xUSDT",
                                          amount |-> amount, side |-> side,
                                          slippagePct |-> slippagePct],
                             configSlippagePct |-> configSlippagePct,
                             slippageTolerance |-> quote.slippageTolerance,
                             response |-> FormatQuoteResponse(quote, slippagePct)]
            /\ UNCHANGED <<quoteCache, execution, swaps, confVars>>
            /\ UNCHANGED <<feeVars, engVars, bldVars, instVars, concVars, setVars, srcVars,
                           routeVars>>

----------------------------------------------------------------------------
(* executeQuote and the quote cache *)

\* The quote ids the quote-swap route has handed out; the quote cache
\* holds each of them until executeQuote deletes it
QuoteIds == {"quote1", "quote2"}

\* pc: "idle", then "wallet", "send", "wait" at the awaits of executeQuote,
\* then "done" with the result: status 1 for a return, 0 for an exception
NoExecution == [pc |-> "idle", quoteId |-> "none", result |-> <<>>]
ExecutionReturned == <<[status |-> 1, thrown |-> <<>>]>>
ExecutionThrew(e) == <<[status |-> 0, thrown |-> <<e>>]>>

ExecutionVarsUnchanged ==
    /\ UNCHANGED <<swapQuote, confVars>>
    /\ UNCHANGED <<feeVars, engVars, bldVars, instVars, concVars, setVars, srcVars, routeVars>>

\* Lines 19-28: quoteCache.get(quoteId); without an entry the call throws,
\* with one it runs on to the await of Ethereum.getInstance
ExecuteQuoteBegins(t) ==
    /\ execution[t].pc = "idle"
    /\ \E quoteId \in QuoteIds :
         execution' =
             [execution EXCEPT ![t] =
                 IF quoteId \notin quoteCache
                 THEN [pc |-> "done", quoteId |-> quoteId,
                       result |-> ExecutionThrew(BadRequest(<<"Quote not found or expired">>))]
                 ELSE [pc |-> "wallet", quoteId |-> quoteId, result |-> <<>>]]
    /\ UNCHANGED <<quoteCache, swaps>>
    /\ ExecutionVarsUnchanged

\* Lines 28-46: the instance, the wallet, the allowance and its approval;
\* any of them may throw
ExecuteQuotePrepares(t) ==
    /\ execution[t].pc = "wallet"
    /\ \E wallet \in {"ok", "notFound"} :
         execution' =
             [execution EXCEPT ![t] =
                 IF wallet = "notFound"
                 THEN [@ EXCEPT !.pc = "done",
                                !.result = ExecutionThrew(
                                    Error(<<"Wallet not found for address: ", "0xwallet">>))]
                 ELSE [@ EXCEPT !.pc = "send"]]
    /\ UNCHANGED <<quoteCache, swaps>>
    /\ ExecutionVarsUnchanged

\* Lines 48-56: wallet.sendTransaction(txData)
ExecuteQuoteSends(t) ==
    /\ execution[t].pc = "send"
    /\ \E send \in {"ok", "rpcError"} :
         execution' =
             [execution EXCEPT ![t] =
                 IF send = "rpcError"
                 THEN [@ EXCEPT !.pc = "done", !.result = ExecutionThrew(Error(RpcErrorMessage))]
                 ELSE [@ EXCEPT !.pc = "wait"]]
    /\ UNCHANGED <<quoteCache, swaps>>
    /\ ExecutionVarsUnchanged

\* ExecuteQuoteEnds deleting the quote whatever the receipt says
ExecuteQuoteEndsDeleting(txReceipt, cache, quoteId) ==
    IF txReceipt = <<>> \/ txReceipt # <<1>>
    THEN [result |-> ExecutionThrew(InternalServerError(<<"Transaction failed">>)),
          quoteCache |-> cache \ {quoteId}]
    ELSE [result |-> ExecutionReturned, quoteCache |-> cache \ {quoteId}]

\* Lines 59-92: the receipt (<<>> for null, else its status) decides: a
\* missing receipt or a status other than 1 throws, status 1 deletes the
\* quote from the cache and returns status 1
ExecuteQuoteEnds(txReceipt, cache, quoteId) ==
    IF txReceipt = <<>> \/ txReceipt # <<1>>
    THEN [result |-> ExecutionThrew(InternalServerError(<<"Transaction failed">>)),
          quoteCache |-> cache]
    ELSE [result |-> ExecutionReturned, quoteCache |-> cache \ {quoteId}]

\* Line 57: waitForTransactionWithTimeout(txResponse) answers
ExecuteQuoteConfirms(t) ==
    /\ execution[t].pc = "wait"
    /\ \E txReceipt \in {<<>>, <<0>>, <<1>>} :
         LET end == ExecuteQuoteEnds(txReceipt, quoteCache, execution[t].quoteId)
         IN  /\ execution' = [execution EXCEPT ![t] = [@ EXCEPT !.pc = "done",
                                                                 !.result = end.result]]
             /\ quoteCache' = end.quoteCache
             /\ swaps' = IF end.result = ExecutionReturned
                         THEN [swaps EXCEPT ![execution[t].quoteId] = @ + 1]
                         ELSE swaps
    /\ ExecutionVarsUnchanged

\* The caller has its answer; the task may make another call
ExecuteQuoteAnswered(t) ==
    /\ execution[t].pc = "done"
    /\ execution' = [execution EXCEPT ![t] = NoExecution]
    /\ UNCHANGED <<quoteCache, swaps>>
    /\ ExecutionVarsUnchanged

----------------------------------------------------------------------------
(* Solana.confirmTransaction *)

NoConfirmation == [call |-> "none"]

\* What the upstream calls of one confirmTransaction answer:
\*   monitor        : heliusService.monitorTransaction, one of MonitorOutcomes
\*   getTransaction : "null" | "err" (meta.err set) | "ok" | "reject"
\*                    | "pending" (no answer before the timeout)
\*   status         : getSignatureStatus: "null" (value null) | "processed"
\*                    | "confirmed" | "finalized" | "reject" | "pending"
ConfirmUpstreams ==
    [monitor : MonitorOutcomes,
     getTransaction : {"null", "err", "ok", "reject", "pending"},
     status : {"null", "processed", "confirmed", "finalized", "reject", "pending"}]

ConfirmReturned(via, confirmed, txData) ==
    [kind |-> "return", via |-> via, confirmed |-> confirmed, txData |-> txData,
     message |-> <<>>]

\* Line 1045: the catch wraps every exception
ConfirmThrew(via, message) ==
    [kind |-> "throw", via |-> via, confirmed |-> FALSE, txData |-> <<>>,
     message |-> <<"Failed to confirm transaction: ">> \o message]

\* Lines 1000-1047: confirmTransaction(signature, timeout) on an instance
\* whose Helius setup is h. this.heliusService is undefined on an instance
\* without a Helius service, and line 1006 calls a method on it. An
\* exception inside the async executor of the polling promise leaves the
\* promise unsettled, so the timeout decides.
ConfirmTransaction(h, up) ==
    IF ~h.service
    THEN ConfirmThrew("none", <<"Cannot read properties of undefined (reading '",
                                "isWebSocketConnected", "')">>)
    ELSE IF h.webSocket
    THEN IF up.monitor.kind = "throw" THEN ConfirmThrew("webSocket", <<"monitor failed">>)
         ELSE ConfirmReturned("webSocket", up.monitor.confirmed, up.monitor.txData)
    ELSE IF up.getTransaction \in {"reject", "pending"}
    THEN ConfirmThrew("polling", <<"Confirmation timed out">>)
    ELSE IF up.getTransaction = "null"
    THEN ConfirmReturned("polling", FALSE, <<>>)
    ELSE IF up.getTransaction = "err"
    THEN ConfirmThrew("polling", <<"Transaction failed with error: ", "err">>)
    ELSE IF up.status \in {"reject", "pending"}
    THEN ConfirmThrew("polling", <<"Confirmation timed out">>)
    ELSE ConfirmReturned("polling", up.status \in {"confirmed", "finalized"},
                         <<TxRecord(FALSE)>>)

\* A caller asks an instance to confirm a transaction
CallConfirmTransaction ==
    \E h \in [service : BOOLEAN, webSocket : BOOLEAN], up \in ConfirmUpstreams :
        /\ h.webSocket => h.service
        /\ confirmation' = [call |-> "confirmTransaction", helius |-> h, upstream |-> up,
                            outcome |-> ConfirmTransaction(h, up)]
        /\ UNCHANGED <<extraction, quoteVars>>
        /\ UNCHANGED <<feeVars, engVars, bldVars, instVars, concVars, setVars, srcVars,
                       routeVars>>

----------------------------------------------------------------------------
(* The balance changes of Solana.extractBalanceChangesAndFee as doubles *)

\* The settlement model above counts balances in the mint's smallest unit.
\* The code works on doubles: a token balance is the uiAmount of the
\* record (the raw amount divided by 10^decimals) and a SOL balance is in
\* lamports. A reported change is written here as the raw delta it stands
\* for and the side on which the double lies of the double nearest to
\* raw / 10^decimals: drift 0 when it is that double, -1 below, 1 above.

NoExtraction == [token |-> "none"]

\* The uiAmount pairs <<decimals, pre, post>> (in raw units) whose double
\* difference post - pre is not the double nearest to the quotient, e.g.
\* 0.3 - 0.1 = 0.19999999999999998, 5.000001 - 5 = 1.000000000139778e-06,
\* 3e-18 - 1e-18 = 1.9999999999999998e-18
DifferenceBelow ==
    {<<6, 100000, 300000>>, <<6, 5000001, 100000>>, <<6, 5000001, 5000000>>,
     <<9, 100000000, 300000000>>, <<18, 1, 3>>, <<18, 2, 3>>}
DifferenceAbove ==
    {<<6, 300000, 100000>>, <<6, 100000, 5000001>>, <<6, 5000000, 5000001>>,
     <<9, 300000000, 100000000>>, <<18, 3, 1>>, <<18, 3, 2>>}

\* postBalance - preBalance of two uiAmounts
UiAmountDifference(decimals, preBalance, postBalance) ==
    [raw |-> postBalance - preBalance,
     drift |-> IF <<decimals, preBalance, postBalance>> \in DifferenceBelow THEN -1
               ELSE IF <<decimals, preBalance, postBalance>> \in DifferenceAbove THEN 1
               ELSE 0]

\* lamportChange * LAMPORT_TO_SOL, LAMPORT_TO_SOL being the double
\* 1 / Math.pow(10, 9): 3 * 1e-9 = 3.0000000000000004e-09 and
\* 999995000 * 1e-9 = 0.9999950000000001, while 5000 * 1e-9 = 5e-06
TimesLamportToSol(lamportChange) ==
    [raw |-> lamportChange,
     drift |-> IF lamportChange \in {3, 999995000} THEN 1
               ELSE IF lamportChange \in {-3, -999995000} THEN -1
               ELSE 0]

\* One element of balanceChanges: the change of the token for the owner.
\* A token balance the record does not list, or lists as 0, counts as 0.
BalanceChange(token, ownerInAccounts, decimals, preBalance, postBalance) ==
    IF token = NativeMint
    THEN IF ~ownerInAccounts THEN [raw |-> 0, drift |-> 0]
         ELSE TimesLamportToSol(postBalance[1] - preBalance[1])
    ELSE UiAmountDifference(decimals,
                            IF preBalance # <<>> THEN preBalance[1] ELSE 0,
                            IF postBalance # <<>> THEN postBalance[1] ELSE 0)

\* The balances (in raw units) a transaction record can hold for a mint of
\* the given decimals
RawBalances(token, decimals) ==
    IF token = NativeMint THEN {<<2000000000>>, <<1999995000>>, <<2000000003>>, <<1000000000>>}
    ELSE {<<>>} \cup (IF decimals = 6
                      THEN {<<0>>, <<1>>, <<100000>>, <<300000>>, <<5000000>>, <<5000001>>}
                      ELSE IF decimals = 9 THEN {<<0>>, <<100000000>>, <<300000000>>}
                      ELSE {<<0>>, <<1>>, <<2>>, <<3>>})

\* A caller extracts the balance change of one token from a transaction
ExtractBalanceChange ==
    \E mint \in {<<NativeMint, 9>>, <<"USDC", 6>>, <<"BONK", 9>>, <<"WETH18", 18>>},
       ownerInAccounts \in BOOLEAN :
        \E preBalance \in RawBalances(mint[1], mint[2]),
           postBalance \in RawBalances(mint[1], mint[2]) :
            /\ mint[1] # NativeMint => ownerInAccounts
            /\ extraction' = [token |-> mint[1], decimals |-> mint[2],
                              ownerInAccounts |-> ownerInAccounts,
                              preBalance |-> preBalance, postBalance |-> postBalance,
                              balanceChange |-> BalanceChange(mint[1], ownerInAccounts, mint[2],
                                                              preBalance, postBalance)]
            /\ UNCHANGED <<confirmation, quoteVars>>
            /\ UNCHANGED <<feeVars, engVars, bldVars, instVars, concVars, setVars, srcVars,
                           routeVars>>

----------------------------------------------------------------------------
(* Specifications *)

EthInstance(n, cfgMin, cfgFees, scan) ==
    [network |-> n, minGasPrice |-> ConstructorMinGasPrice(cfgMin),
     maxFeePerGas |-> cfgFees[1], maxPriorityFeePerGas |-> cfgFees[2],
     hasEtherscan |-> scan]

\* config.maxFeePerGas, config.maxPriorityFeePerGas of a network
ConfigFees == {<<Undefined, Undefined>>, <<(<<50000000>>), (<<50000000>>)>>,
               <<(<<400000000>>), (<<50000000>>)>>}

InitFeeVars ==
    /\ now = 0
    /\ lastGasPriceEstimate = NoEstimate
    /\ cachedBy = "none"
    /\ lastPriorityFeeEstimate = NoPriorityEstimate
    /\ feeReturn = [callee |-> "none", network |-> "none", at |-> 0, minimum |-> 0,
                    upstreamsFailed |-> FALSE, served |-> "none", value |-> 0]

InitBuildVars ==
    /\ build = [t \in Tasks |-> NoBuild]
    /\ transactionCount = [n \in EthNetworks |-> 0]
    /\ mempool = {}

InitLaterVars ==
    /\ registry = [c \in Classes |-> [n \in InstanceNetworks |-> 0]]
    /\ instanceCount = 0
    /\ initialized = {}
    /\ handedOut = [c \in Classes |-> [n \in InstanceNetworks |-> {}]]
    /\ getCalls = [t \in Tasks |-> NoGetCall]
    /\ estimation = [t \in Tasks |-> NoEstimation]
    /\ writes = <<>>
    /\ settleCall = NoSettleCall
    /\ settlement = NoSettlement
    /\ routeCall = NoRouteCall
    /\ routeReply = NoReply
    /\ routeEffects = <<>>
    /\ swapQuote = NoSwapQuote
    /\ quoteCache = QuoteIds
    /\ execution = [t \in Tasks |-> NoExecution]
    /\ swaps = [q \in QuoteIds |-> 0]
    /\ confirmation = NoConfirmation
    /\ extraction = NoExtraction

InitEngineVars ==
    /\ caller = "none"
    /\ pc = "idle"
    /\ serializedTx = Serialize(0, 0, 0)
    /\ lastValidBlockHeight = 0
    /\ signature = <<>>
    /\ attempts = 0
    /\ sends = <<>>
    /\ statusPolls = 0
    /\ polled = "none"
    /\ engineStatus = "None"
    /\ engineResult = NoResult
    /\ reported = <<>>
    /\ response = NoResponse
    /\ chainHeight = 0
    /\ txOnChain = "unseen"

InitFee ==
    /\ InitFeeVars
    /\ \E mins \in [EthNetworks -> ConfigMinGasPrices], fees \in ConfigFees, scan \in BOOLEAN :
           /\ IsDef(fees[1]) => scan
           /\ ethConfig = [n \in EthNetworks |-> EthInstance(n, mins[n], fees, scan)]
    /\ InitEngineVars
    /\ helius = [service |-> FALSE, webSocket |-> FALSE]
    /\ InitBuildVars
    /\ InitLaterVars
    /\ consultation = NoConsultation

NextFee ==
    \/ \E n \in EthNetworks : EstimateGasPrice(n)
    \/ \E config \in SolConfigs : EstimatePriorityFee(config)
    \/ Tick

SpecFee == InitFee /\ [][NextFee]_vars

InitBuild ==
    /\ InitFeeVars
    /\ \E fees \in ConfigFees \cup {<<(<<200000000>>), (<<400000000>>)>>} :
           ethConfig = [n \in EthNetworks |-> EthInstance(n, Undefined, fees, FALSE)]
    /\ InitEngineVars
    /\ helius = [service |-> FALSE, webSocket |-> FALSE]
    /\ InitBuildVars
    /\ InitLaterVars
    /\ consultation = NoConsultation

BuildStep ==
    \E t \in Tasks :
        \/ StartBuild(t)
        \/ Estimate347(t)
        \/ Legacy370(t)
        \/ GetTransactionCount(t)
        \/ SendTransaction(t)

NextBuild ==
    \/ BuildStep
    \/ Mine
    \/ Tick

SpecBuild == InitBuild /\ [][NextBuild]_vars

InitInstances ==
    /\ InitFeeVars
    /\ ethConfig = [n \in EthNetworks |-> EthInstance(n, Undefined, <<Undefined, Undefined>>, FALSE)]
    /\ InitEngineVars
    /\ helius = [service |-> FALSE, webSocket |-> FALSE]
    /\ InitBuildVars
    /\ InitLaterVars
    /\ consultation = NoConsultation

NextInstances ==
    \/ \E t \in Tasks : GetInstance(t) \/ InitEnds(t) \/ NextCall(t)
    \/ Close

SpecInstances == InitInstances /\ [][NextInstances]_vars

NextCache ==
    \/ \E t \in Tasks : BeginEstimation(t) \/ EndEstimation(t)
    \/ Tick

\* (the instances of InitInstances: default minimum, no configured fees)
SpecCache == InitInstances /\ [][NextCache]_vars

InitSources ==
    /\ InitFeeVars
    /\ \E min \in SourceMinGasPrices, fees \in SourceConfigFees, scan \in BOOLEAN :
           /\ ethConfig = [n \in EthNetworks |-> EthInstance(n, min, fees, scan)]
           /\ consultation = [NoConsultation EXCEPT !.settings =
                  [n \in EthNetworks |-> [minGasPrice |-> min, fees |-> fees,
                                          etherscan |-> scan]]]
    /\ InitEngineVars
    /\ helius = [service |-> FALSE, webSocket |-> FALSE]
    /\ InitBuildVars
    /\ InitLaterVars

NextSources ==
    \/ \E n \in EthNetworks : ConsultSources(n)
    \/ Tick

SpecSources == InitSources /\ [][NextSources]_vars

NextSettle == SettleEthereum \/ SettleSolana

SpecSettle == InitInstances /\ [][NextSettle]_vars

NextRoutes ==
    \/ QuoteSwapRoute
    \/ PoolInfoRoute
    \/ ExecuteQuoteRoute
    \/ ClosePositionRoute
    \/ Simulate
    \/ AddLiquidityRoute
    \/ OpenPositionRoute

SpecRoutes == InitInstances /\ [][NextRoutes]_vars

SpecQuote == InitInstances /\ [][QuoteSwap]_vars

NextExecute ==
    \E t \in Tasks :
        \/ ExecuteQuoteBegins(t)
        \/ ExecuteQuotePrepares(t)
        \/ ExecuteQuoteSends(t)
        \/ ExecuteQuoteConfirms(t)
        \/ ExecuteQuoteAnswered(t)

SpecExecute == InitInstances /\ [][NextExecute]_vars

SpecConfirm == InitInstances /\ [][CallConfirmTransaction]_vars

SpecExtract == InitInstances /\ [][ExtractBalanceChange]_vars

HeliusSetups ==
    {h \in [service : BOOLEAN, webSocket : BOOLEAN] : h.webSocket => h.service}

InitEngine ==
    /\ InitFeeVars
    /\ ethConfig = [n \in EthNetworks |-> EthInstance(n, Undefined, <<Undefined, Undefined>>, FALSE)]
    /\ InitEngineVars
    /\ helius \in HeliusSetups
    /\ InitBuildVars
    /\ InitLaterVars
    /\ consultation = NoConsultation

EngineStep ==
    \/ GetLatestBlockhash
    \/ Send
    \/ Monitor
    \/ Poll
    \/ GetTransaction
    \/ GetBlockHeight
    \/ Rebroadcast

CallerStep ==
    \/ SendAndConfirmRawTransaction
    \/ ClosePositionSend
    \/ RawHandleConfirmation
    \/ SendAndConfirmTransactionEnds
    \/ ClosePositionRefetch

NextEngine ==
    \/ EngineStep
    \/ CallerStep
    \/ AdvanceBlock
    \/ Land

SpecEngine == InitEngine /\ [][NextEngine]_vars

\* The runtime resumes every pending continuation: no step of the engine
\* or of its caller stays enabled forever without being taken.
FairSpecEngine == SpecEngine /\ WF_vars(EngineStep) /\ WF_vars(CallerStep)

----------------------------------------------------------------------------
(* Claims about the fee estimators *)

\* C1: every value a fee estimator returns is at least the minimum price
\* configured for the instance (Ethereum) or config (Solana) it was called on.
C1_FeeFloor ==
    feeReturn.callee # "none" => feeReturn.value >= feeReturn.minimum

----------------------------------------------------------------------------
(* Claims about the submission engine *)

Rebroadcasts == Cardinality({i \in 1..Len(sends) : sends[i].call = "rebroadcast"})

\* C2: once a terminal status has been reported for a submission, a later
\* re-fetch of the transaction reports the same status.
C2_StatusKept ==
    [][(pc = "refetch" /\ response'.kind = "result")
          => response'.status = reported[Len(reported)]]_vars

\* C3: the polling loop makes at most 30 status polls; when the budget is
\* used up without a confirmation or an on-chain error the engine returns
\* not confirmed (Expired); and every submission comes to an end.
C3_PollingTerminates ==
    /\ [](statusPolls <= maxPollingAttempts)
    /\ []((pc = "engineDone" /\ statusPolls = maxPollingAttempts
             /\ engineStatus \notin {"Confirmed", "Failed"})
            => (engineStatus = "Expired"
                /\ engineResult = Returned(FALSE, TxSignature, <<>>)))
    /\ <>(pc = "done")

C3_Witness ==
    /\ pc = "engineDone"
    /\ statusPolls = maxPollingAttempts
    /\ engineStatus = "Expired"
    /\ txOnChain = "unseen"

\* C4: every send call of a submission, re-broadcasts included, carries
\* the bytes of the first broadcast.
C4_SameBytes ==
    \A i \in 1..Len(sends) : sends[i].bytes = sends[1].bytes /\ sends[i].bytes = serializedTx

C4_Witness == Rebroadcasts >= 2

\* C5: the engine returns confirmed = true only with the transaction
\* record in hand.
C5_ConfirmedHasReceipt ==
    (engineResult.kind = "return" /\ engineResult.confirmed) => IsDef(engineResult.txData)

\* C6: a transaction for which a status poll reported an execution error
\* is answered with status -1 (Failed): not 0, not 1, not an exception.
C6_RevertIsFailed ==
    (pc = "done" /\ polled = "err") => (response.kind = "result" /\ response.status = FAILED)

\* C7: when a status poll reports an execution error the engine ends in
\* Failed in that very step, and no status poll and no send follows.
C7_FailedAtOnce ==
    /\ [](polled = "err" => (~EngineRunning /\ engineStatus = "Failed"))
    /\ [][polled = "err" => (statusPolls' = statusPolls /\ sends' = sends)]_vars

C7_Witness == pc = "done" /\ polled = "err"

\* C8: whatever network call fails inside the engine, its caller gets a
\* result, never an exception.
C8_NoException ==
    (pc = "done" /\ engineStatus \notin {"None", "Confirmed"}) => response.kind = "result"

\* C9: when the polling budget is used up with the transaction neither
\* confirmed nor failed, the caller gets status 0 with the signature and
\* no data.
C9_ExpiredIsStatus0 ==
    (pc = "done" /\ engineStatus = "Expired" /\ statusPolls = maxPollingAttempts)
        => response = Result(PENDING, TxSignature, FALSE)

\* C10 as stated: while the transaction stays unseen the engine
\* re-broadcasts exactly once after the validity window has elapsed.
C10_ExactlyOneRebroadcast ==
    txOnChain = "unseen" => Rebroadcasts <= 1

\* C10 as amended: no re-broadcast is made before the block height has
\* passed lastValidBlockHeight; after that each poll iteration that has not
\* found the transaction confirmed makes at most one re-broadcast call, so
\* there may be several in total, each carrying the original bytes.
C10_RebroadcastPerExpiredPoll ==
    /\ []((pc = "rebroadcast" \/ Rebroadcasts > 0) => chainHeight > lastValidBlockHeight)
    /\ [](pc = "rebroadcast" => polled \in {"null", "processed"})
    /\ [](Rebroadcasts <= statusPolls)
    /\ [][IF pc = "rebroadcast" /\ pc' # "rebroadcast"
           THEN /\ Rebroadcasts' = Rebroadcasts + 1
                /\ sends'[Len(sends')].bytes = sends[1].bytes
           ELSE Rebroadcasts' = Rebroadcasts]_vars

C10_Witness == txOnChain = "unseen" /\ Rebroadcasts >= 2

----------------------------------------------------------------------------
(* Claims about the fee cache *)

\* C11: two finished calls to the same estimator of the same network, each
\* made while a cached quote was younger than 10 seconds and less than 10
\* seconds apart, returned the identical quote.
C11_SameQuoteInWindow ==
    \A t, u \in Tasks :
        (/\ estimation[t].pc = "done" /\ estimation[u].pc = "done"
         /\ estimation[t].callee = estimation[u].callee
         /\ estimation[t].network = estimation[u].network
         /\ estimation[t].served = "cache" /\ estimation[u].served = "cache"
         /\ estimation[t].startedAt - estimation[u].startedAt < 10000
         /\ estimation[u].startedAt - estimation[t].startedAt < 10000)
        => estimation[t].value = estimation[u].value

\* C12 as stated: a call that finds every upstream source failing resolves
\* to the configured floor value.
C12_FloorWhenUpstreamsFail ==
    (feeReturn.upstreamsFailed /\ feeReturn.served # "cache")
        => (feeReturn.served # "throw" /\ feeReturn.value = feeReturn.minimum)

\* C12 as amended: a call never rejects; when every upstream source fails
\* it resolves to the floor, except that a quote still within its window is
\* returned from the cache, and an instance of an EIP-1559 network with
\* both maxFeePerGas and maxPriorityFeePerGas configured resolves to the
\* configured maxFeePerGas raised to the floor.
C12_NeverThrowsFloorOrConfigured ==
    /\ feeReturn.callee # "none" => feeReturn.served \in {"cache", "estimate", "floor"}
    /\ (feeReturn.upstreamsFailed /\ feeReturn.served = "floor")
          => feeReturn.value = feeReturn.minimum
    /\ (feeReturn.upstreamsFailed /\ feeReturn.served = "estimate")
          => /\ feeReturn.callee = "estimateGasPrice"
             /\ SupportsEIP1559(feeReturn.network)
             /\ IsDef(ethConfig[feeReturn.network].maxFeePerGas)
             /\ IsDef(ethConfig[feeReturn.network].maxPriorityFeePerGas)
             /\ feeReturn.value = Max(Val(ethConfig[feeReturn.network].maxFeePerGas),
                                      feeReturn.minimum)
    /\ (feeReturn.upstreamsFailed /\ feeReturn.served = "cache")
          => feeReturn.value = IF feeReturn.callee = "estimateGasPrice"
                               THEN lastGasPriceEstimate.gasPrice
                               ELSE lastPriorityFeeEstimate.fee

C12_Witness ==
    /\ feeReturn.upstreamsFailed
    /\ feeReturn.served = "estimate"
    /\ feeReturn.value > feeReturn.minimum

\* C14: a quote estimateGasPrice serves from the cache to the instance of
\* network N was computed by the instance of network N.
C14_QuoteOfOwnNetwork ==
    (feeReturn.callee = "estimateGasPrice" /\ feeReturn.served = "cache")
        => cachedBy = feeReturn.network

----------------------------------------------------------------------------
(* Claims about the transaction builder *)

\* C13: gas options never price a legacy (type 0) transaction with a value
\* computed as an EIP-1559 maxFeePerGas, nor a dynamic-fee (type 2)
\* transaction with a value computed as a legacy gas price.
C13_NoModelMixing ==
    \A t \in Tasks :
        /\ build[t].gasOptions.type = 0 => build[t].gasOptions.quoteModel # "eip1559"
        /\ build[t].gasOptions.type = 2 => build[t].gasOptions.quoteModel # "legacy"

\* C15: every gas options object prepareGasOptions returns, and every
\* transaction built from one, is type 0 with gasPrice only or type 2 with
\* maxFeePerGas and maxPriorityFeePerGas only.
C15_OneShape ==
    \A o \in {build[t].gasOptions : t \in Tasks} \cup {tx.gasOptions : tx \in mempool} :
        o # NoGasOptions =>
            \/ /\ o.type = 0
               /\ IsDef(o.gasPrice)
               /\ ~IsDef(o.maxFeePerGas)
               /\ ~IsDef(o.maxPriorityFeePerGas)
            \/ /\ o.type = 2
               /\ ~IsDef(o.gasPrice)
               /\ IsDef(o.maxFeePerGas)
               /\ IsDef(o.maxPriorityFeePerGas)

C15_Witness ==
    /\ build[1].pc = "done"
    /\ build[1].gasOptions.type = 2
    /\ build[1].gasOptions.quoteModel = "override"
    /\ build[2].pc = "done"
    /\ build[2].gasOptions.type = 0
    /\ \E tx \in mempool : tx.task = 2 /\ tx.gasOptions = build[2].gasOptions

\* C16: a build takes as nonce the count of the wallet's mined
\* transactions at the moment it reads it, whatever other build is in
\* flight; so builds that read before any transaction is mined all carry
\* the same nonce.
C16_SameNonce ==
    /\ [][\A t \in Tasks :
            (build[t].pc = "nonce" /\ build'[t].pc = "send")
                => build'[t].nonce = <<transactionCount[build[t].network]>>]_vars
    /\ [](\A t, u \in Tasks :
            (/\ IsDef(build[t].nonce)
             /\ IsDef(build[u].nonce)
             /\ build[t].network = build[u].network
             /\ transactionCount[build[t].network] = 0)
                => build[t].nonce = build[u].nonce)

\* two overlapping approveERC20 / wrapNativeToken calls of one wallet have
\* both read the count, neither has broadcast, and they hold the same nonce
C16_Witness ==
    /\ build[1].pc = "send"
    /\ build[2].pc = "send"
    /\ build[1].op = "approveERC20"
    /\ build[2].op = "wrapNativeToken"
    /\ build[1].network = build[2].network
    /\ build[1].nonce = build[2].nonce

----------------------------------------------------------------------------
(* Claims about the adapter instances *)

\* C17: for each class and network, the getInstance calls made between two
\* close() calls all return one and the same instance.
C17_OneInstancePerNetwork ==
    \A c \in Classes, n \in InstanceNetworks : Cardinality(handedOut[c][n]) <= 1

----------------------------------------------------------------------------
(* Claims about concurrent fee estimations *)

WritesTo(cache) == SelectSeq(writes, LAMBDA w : w.cache = cache)

\* C18: at every moment of every interleaving each fee cache is empty, no
\* computation having written it, or holds exactly the entry assembled by
\* the computation that wrote last, and that entry is complete: a time of
\* writing, a price, and the two EIP-1559 fees exactly when its model flag
\* says EIP-1559.
C18_LastWriterWins ==
    /\ LET ws == WritesTo("gasPrice")
       IN  IF ws = <<>> THEN lastGasPriceEstimate = NoEstimate
           ELSE /\ lastGasPriceEstimate = ws[Len(ws)].entry
                /\ ~lastGasPriceEstimate.isNull
                /\ lastGasPriceEstimate.timestamp \in 0..now
                /\ lastGasPriceEstimate.gasPrice > 0
                /\ lastGasPriceEstimate.isEIP1559
                     = IsDef(lastGasPriceEstimate.maxFeePerGas)
                /\ lastGasPriceEstimate.isEIP1559
                     = IsDef(lastGasPriceEstimate.maxPriorityFeePerGas)
    /\ LET ws == WritesTo("priorityFee")
       IN  IF ws = <<>> THEN lastPriorityFeeEstimate = NoPriorityEstimate
           ELSE /\ lastPriorityFeeEstimate = ws[Len(ws)].entry
                /\ ~lastPriorityFeeEstimate.isNull
                /\ lastPriorityFeeEstimate.timestamp \in 0..now
                /\ lastPriorityFeeEstimate.fee > 0

\* Two overlapping computations have both written, the EIP-1559 one first
\* and the legacy one over it, and no estimation is still running
C18_Witness ==
    /\ \A t \in Tasks : estimation[t].pc = "done"
    /\ LET ws == WritesTo("gasPrice")
       IN  /\ Len(ws) = 2
           /\ ws[1].task # ws[2].task
           /\ ws[1].entry.isEIP1559 /\ ~ws[2].entry.isEIP1559
           /\ ws[1].entry.timestamp = ws[2].entry.timestamp
           /\ \A t \in Tasks : estimation[t].served = "estimate"
           /\ lastGasPriceEstimate = ws[2].entry

----------------------------------------------------------------------------
(* Claims about settlement *)

\* The transaction of the settlement call reverted on chain: the receipt
\* has status 0 (Ethereum), or the transaction record carries an error and
\* the transaction is reported as not confirmed (Solana)
RevertedReceipt ==
    \/ /\ settleCall.chain = "ethereum"
       /\ settleCall.txReceipt # <<>>
       /\ settleCall.txReceipt[1].status = <<0>>
    \/ /\ settleCall.chain = "solana"
       /\ ~settleCall.confirmed
       /\ settleCall.txData # <<>>
       /\ settleCall.txData[1].meta # <<>>
       /\ settleCall.txData[1].meta[1].err

ReceiptFee ==
    IF settleCall.chain = "ethereum"
    THEN settleCall.txReceipt[1].gasUsed * settleCall.txReceipt[1].effectiveGasPrice
    ELSE settleCall.txData[1].meta[1].fee

\* C19: settling a transaction whose receipt shows a revert returns status
\* Failed, the network fee computed from that receipt, and every balance
\* delta equal to zero.
C19_RevertedSettlement ==
    RevertedReceipt =>
        /\ settlement.kind = "returned"
        /\ settlement.status = -1
        /\ settlement.data # <<>>
        /\ settlement.data[1].fee = ReceiptFee
        /\ settlement.data[1].amountIn = 0
        /\ settlement.data[1].amountOut = 0
        /\ settlement.data[1].baseTokenBalanceChange = 0
        /\ settlement.data[1].quoteTokenBalanceChange = 0

\* The settlement call was made before a terminal state: there is no
\* receipt (Ethereum), or there is no transaction data, or the network
\* does not yet answer with the transaction record (Solana)
BeforeTerminalState ==
    \/ settleCall.chain = "ethereum" /\ settleCall.txReceipt = <<>>
    \/ /\ settleCall.chain = "solana"
       /\ \/ settleCall.txData = <<>>
          \/ settleCall.confirmed /\ settleCall.txDetails = <<>>

\* C20: a settlement call made before the transaction has reached a
\* terminal state does not throw and returns Pending without balance
\* deltas.
C20_PendingBeforeTerminal ==
    BeforeTerminalState =>
        /\ settlement.kind = "returned"
        /\ settlement.status = 0
        /\ settlement.data = <<>>

\* The balance changes of the input and of the output token that the
\* transaction record of the settlement call holds for the party: post-
\* balance minus pre-balance, the lamports of the main account for SOL, the
\* token holding otherwise (0 where the record lists none)
RecordedChange(token) ==
    LET d == settleCall.txDetails[1]
    IN  IF token = NativeMint
        THEN IF d.ownerInAccounts THEN d.postBalance - d.preBalance ELSE 0
        ELSE (IF d.postTokenBalance = <<>> THEN 0 ELSE d.postTokenBalance[1])
             - (IF d.preTokenBalance = <<>> THEN 0 ELSE d.preTokenBalance[1])
RecordedInputChange ==
    IF settleCall.chain = "ethereum" THEN -settleCall.expectedAmountIn
    ELSE RecordedChange(settleCall.tokenIn)
RecordedOutputChange ==
    IF settleCall.chain = "ethereum" THEN settleCall.received
    ELSE RecordedChange(settleCall.tokenOut)

\* The deltas the settlement reports for the input and the output token
ReportedInputChange ==
    IF settleCall.side = "BUY" THEN settlement.data[1].quoteTokenBalanceChange
    ELSE settlement.data[1].baseTokenBalanceChange
ReportedOutputChange ==
    IF settleCall.side = "BUY" THEN settlement.data[1].baseTokenBalanceChange
    ELSE settlement.data[1].quoteTokenBalanceChange

\* C21: for a transaction settled as Confirmed, the delta reported for each
\* asset equals the party's post-balance minus its pre-balance as recorded
\* for the transaction.
C21_DeltaIsPostMinusPre ==
    (settlement.kind = "returned" /\ settlement.status = 1)
        => /\ ReportedInputChange = RecordedInputChange
           /\ ReportedOutputChange = RecordedOutputChange

----------------------------------------------------------------------------
(* Claims about the builder and the estimator's sources *)

\* C22: gas options built with an explicit gasPrice argument carry that
\* price (as gasPrice of a type 0, as maxFeePerGas of a type 2 transaction)
\* and are not priced by the estimator or its cache.
C22_OverrideWins ==
    \A t \in Tasks :
        (IsDef(build[t].gasPrice) /\ build[t].gasOptions # NoGasOptions)
            => /\ build[t].gasOptions.quoteModel = "override"
               /\ IF build[t].gasOptions.type = 0
                  THEN build[t].gasOptions.gasPrice = build[t].gasPrice
                  ELSE build[t].gasOptions.maxFeePerGas = build[t].gasPrice

\* The latest call computed its result on a network of the priority-fee
\* model (it was not answered from the cache)
PriorityFeeModelCall ==
    /\ consultation.network # "none"
    /\ SupportsEIP1559(consultation.network)
    /\ consultation.served # "cache"

SourceAnswers == consultation.answers[1]
OracleFailed == SourceAnswers.etherscan \in {"none", "error"}
FeeDataFailed == SourceAnswers.feeData \in {"error", "missing"}
FeesConfigured ==
    LET fees == consultation.settings[consultation.network].fees
    IN  fees[1] # <<>> /\ fees[2] # <<>>
Floor == ethConfig[consultation.network].minGasPrice
WasConsulted(source) == \E i \in 1..Len(consultation.consulted) : consultation.consulted[i] = source

\* The sources are asked in the order oracle, fee data, gas price, a later
\* one only when every earlier one failed or was unavailable; a max fee
\* taken from the fee data is at least 2 x base fee + priority fee
SourcesInOrder ==
    /\ consultation.consulted \in
          {<<>>, <<"oracle">>, <<"feeData">>, <<"gasPrice">>, <<"oracle", "feeData">>,
           <<"oracle", "gasPrice">>, <<"feeData", "gasPrice">>,
           <<"oracle", "feeData", "gasPrice">>}
    /\ WasConsulted("feeData") => OracleFailed
    /\ WasConsulted("gasPrice") => OracleFailed /\ FeeDataFailed
    /\ (OracleFailed /\ ~FeeDataFailed /\ ~FeesConfigured)
          => /\ consultation.served = "estimate"
             /\ consultation.entry.isEIP1559
             /\ consultation.entry.maxFeePerGas[1]
                  >= 2 * SourceAnswers.blockBaseFee + SourceAnswers.rpcPriority
             /\ consultation.entry.maxPriorityFeePerGas = <<SourceAnswers.rpcPriority>>

\* The result is the legacy single-price estimate: the gas price the
\* network reports (plus the priority fee on mainnet), not below the floor,
\* or the floor when that request fails too
LegacyResult ==
    /\ WasConsulted("gasPrice")
    /\ IF SourceAnswers.gasPrice = "ok"
       THEN /\ consultation.served = "estimate"
            /\ ~consultation.entry.isEIP1559
            /\ consultation.entry.maxFeePerGas = <<>>
            /\ consultation.entry.gasPrice = consultation.value
            /\ LET price == SourceAnswers.legacyGasPrice
                            + (IF consultation.network = "mainnet"
                               THEN SourceAnswers.legacyPriority ELSE 0)
               IN  consultation.value = IF price < Floor THEN Floor ELSE price
       ELSE consultation.served = "floor" /\ consultation.value = Floor

\* C23 as stated: the sources are consulted in the fixed order, each only
\* after the earlier ones failed, and when both the oracle and the fee data
\* fail the result is the legacy single-price estimate.
C23_LegacyWhenBothFail ==
    PriorityFeeModelCall
        => /\ SourcesInOrder
           /\ (OracleFailed /\ FeeDataFailed) => LegacyResult

\* C23 amended: as stated, except that with both maxFeePerGas and
\* maxPriorityFeePerGas configured the result is the configured pair (the
\* max fee raised to the floor) whatever the sources answered, also when
\* the oracle and the fee data both fail; only without them is the result
\* then the legacy single-price estimate.
C23_SourcesInOrderUnlessConfigured ==
    PriorityFeeModelCall
        => /\ SourcesInOrder
           /\ FeesConfigured
                => LET fees == consultation.settings[consultation.network].fees
                   IN  /\ consultation.served = "estimate"
                       /\ consultation.entry.isEIP1559
                       /\ consultation.value = Max(fees[1][1], Floor)
                       /\ consultation.entry.maxPriorityFeePerGas = fees[2]
                       /\ ~WasConsulted("gasPrice")
           /\ (OracleFailed /\ FeeDataFailed /\ ~FeesConfigured) => LegacyResult

\* The oracle and then the fee data failed and the legacy gas price was the
\* result
C23_Witness ==
    /\ PriorityFeeModelCall
    /\ consultation.consulted = <<"oracle", "feeData", "gasPrice">>
    /\ SourceAnswers.etherscan = "error"
    /\ SourceAnswers.feeData = "error"
    /\ consultation.served = "estimate"
    /\ consultation.value > Floor

C25_NoStaleCacheInOptions ==
    [][\A t \in Tasks :
          (/\ build[t].pc = "idle"
           /\ build'[t].gasOptions # NoGasOptions
           /\ build'[t].gasOptions.quoteModel = "eip1559")
              => now - lastGasPriceEstimate.timestamp < 10000]_vars

----------------------------------------------------------------------------
(* Claims about failures *)

\* C26: the engine gives a submission up as SubmissionFailed only after a
\* failed send has been retried: one failed send call alone does not end
\* the submission.
C26_SendFailureRetried ==
    engineStatus = "SubmissionFailed" => Len(sends) >= 2

----------------------------------------------------------------------------
(* Claims about the routes *)

\* The exception that escaped the logic of the request followed
Escaped == routeCall.escaped[1]

\* C27: when the quote-swap or the pool-info handler raises a 4xx error
\* for a failure the client caused (a required parameter is missing, a
\* token cannot be resolved, the pool is not found), the response carries
\* that status code; an unresolvable token is answered with a 4xx.
C27_ClientFailureKeeps4xx ==
    (routeCall.route \in {"quoteSwap", "poolInfo"} /\ routeCall.escaped # <<>>)
        => /\ Escaped.statusCode \in 400..499 => routeReply.statusCode = Escaped.statusCode
           /\ (Escaped.statusCode = 0 /\ Includes(Escaped.message, <<"token not found">>))
                  => routeReply.statusCode \in 400..499

\* Whether a handler's catch block classifies an exception: it is an HTTP
\* error, or the handler recognises its message
Classified(route, e) ==
    \/ e.statusCode # 0
    \/ /\ route = "quoteSwap"
       /\ \E pattern \in {"Insufficient liquidity", "Pool not found", "No AMM pool found",
                          "token not found"} : Includes(e.message, <<pattern>>)

\* The message of a handler's generic server error
GenericMessage(route) ==
    IF route = "quoteSwap" THEN <<"Error getting swap quote">>
    ELSE <<"Internal server error">>

\* C28: an exception that escapes the logic of the execute-quote, the
\* quote-swap or the close-position handler and that the handler does not
\* classify is answered with status 500 and the handler's fixed message,
\* whatever the exception's own message is.
C28_UnclassifiedIsGeneric500 ==
    (/\ routeCall.route \in {"executeQuote", "quoteSwap", "closePosition"}
     /\ routeCall.escaped # <<>>
     /\ ~Classified(routeCall.route, Escaped))
        => /\ routeReply.statusCode = 500
           /\ routeReply.message = GenericMessage(routeCall.route)

\* The known patterns of a simulation failure in the order they are
\* tested, each with the message of its error
KnownPatterns ==
    <<[patterns |-> {<<"Error Code: ", "TooLittleOutputReceived">>,
                     <<"custom program error: ", "0x1786">>},
       ignoreCase |-> {},
       message |-> <<"Swap failed: Slippage tolerance exceeded. Output would be less than your minimum. Consider increasing slippage.">>],
      [patterns |-> {<<"Error Code: ", "TooMuchInputPaid">>,
                     <<"custom program error: ", "0x1787">>},
       ignoreCase |-> {},
       message |-> <<"Swap failed: Slippage tolerance exceeded. Input would be more than your maximum. Consider increasing slippage.">>],
      [patterns |-> {<<"SqrtPriceLimitOverflow">>, <<"custom program error: ", "0x177d">>},
       ignoreCase |-> {},
       message |-> <<"Swap failed: Square root price limit overflow. Adjust price limit/direction or retry with default limits.">>],
      [patterns |-> {<<"Insufficient", "Funds">>},
       ignoreCase |-> {<<"insufficient">>},
       message |-> <<"Swap failed: Insufficient funds. Please check your token balance.">>],
      [patterns |-> {<<"AccountNotFound">>},
       ignoreCase |-> {},
       message |-> <<"Swap failed: One or more required accounts not found. The pool or token accounts may not be initialized.">>]>>

FallbackMessage ==
    <<"Transaction simulation failed. This usually means the swap parameters are invalid or market conditions changed. Try again.">>

\* The known patterns a message matches, by their place in the order
Matching(message) ==
    {i \in DOMAIN KnownPatterns :
        \/ \E p \in KnownPatterns[i].patterns : Includes(message, p)
        \/ \E p \in KnownPatterns[i].ignoreCase : Includes(ToLowerCase(message), p)}

LowAllowances ==
    {i \in 1..2 :
        /\ ChecksAllowance(routeCall.route, routeCall.request.tokens[i],
                           routeCall.request.amounts[i])
        /\ routeCall.upstream.allowances[i] < routeCall.request.amounts[i]}

\* C30: when, in add-liquidity or open-position, the allowance of a token
\* that has a non-zero amount and needs an allowance is below the amount,
\* no transaction is sent; and a request that got as far as the allowance
\* checks ends with a 400 that names the first such token and the amount
\* to approve.
C30_NoBroadcastBelowAllowance ==
    (routeCall.route \in {"addLiquidity", "openPosition"} /\ LowAllowances # {})
        => /\ routeEffects = <<>>
           /\ routeCall.upstream.early = "ok"
                  => LET i == CHOOSE i \in LowAllowances : \A j \in LowAllowances : i <= j
                         token == routeCall.request.tokens[i]
                     IN  /\ routeReply.statusCode = 400
                         /\ routeReply.message[1] = "Insufficient "
                         /\ routeReply.message[2] = token.symbol
                         /\ routeReply.message[4] =
                                ToString(FormatTokenAmount(routeCall.request.amounts[i],
                                                           token.decimals))

\* Liquidity was to be added with an allowance of half the amount of the
\* second token: the request ended with a 400 and nothing was sent
C30_Witness ==
    /\ routeCall.route = "addLiquidity"
    /\ routeCall.upstream.early = "ok"
    /\ LowAllowances = {2}
    /\ routeCall.upstream.allowances[2] = 5000000
    /\ routeReply.statusCode = 400
    /\ routeEffects = <<>>

----------------------------------------------------------------------------
(* Claims about swap quotes *)

\* C31: in a swap quote the requested amount is the exact amount of the
\* base token: with side SELL tokenIn is the base token, tokenOut the quote
\* token, amountIn the requested amount and maxAmountIn equals amountIn;
\* with side BUY tokenIn is the quote token, tokenOut the base token,
\* amountOut the requested amount and minAmountOut equals amountOut.
C31_RequestedAmountIsExact ==
    swapQuote.connector # "none"
        => LET quoted == swapQuote.request
               answer == swapQuote.response
           IN  IF quoted.side = "SELL"
               THEN /\ answer.tokenIn = quoted.baseToken
                    /\ answer.tokenOut = quoted.quoteToken
                    /\ answer.amountIn = quoted.amount
                    /\ answer.maxAmountIn = answer.amountIn
               ELSE /\ answer.tokenIn = quoted.quoteToken
                    /\ answer.tokenOut = quoted.baseToken
                    /\ answer.amountOut = quoted.amount
                    /\ answer.minAmountOut = answer.amountOut

\* C32: the slippagePct of a swap-quote response is the slippage tolerance
\* that was applied to compute the quote's minAmountOut and maxAmountIn
\* (a tolerance in basis points is ten thousandths of a percent).
C32_ReportedSlippageIsApplied ==
    swapQuote.connector # "none"
        => swapQuote.response.slippagePct = swapQuote.slippageTolerance * 10

----------------------------------------------------------------------------
(* Claims about extracted balance changes *)

\* C33: for an asset with d decimals and an integer raw balance delta r
\* the extractor reports exactly r / 10^d: the reported change of an owner
\* the record lists is the double nearest to the quotient of the raw delta
\* of the two balances.
C33_ReportsExactQuotient ==
    extraction.token # "none" /\ extraction.ownerInAccounts
        => /\ extraction.balanceChange.raw
                  = (IF extraction.postBalance # <<>> THEN extraction.postBalance[1] ELSE 0)
                    - (IF extraction.preBalance # <<>> THEN extraction.preBalance[1] ELSE 0)
           /\ extraction.balanceChange.drift = 0

----------------------------------------------------------------------------
(* Claims about re-broadcasts *)

\* C34 as stated: a re-broadcast is issued only in a poll iteration in
\* which the transaction is still unseen by the network and the block
\* height is greater than the lastValidBlockHeight recorded at the first
\* broadcast; in every other iteration nothing is sent.
C34_RebroadcastOnlyWhenUnseen ==
    /\ [](pc = "rebroadcast" => polled = "null" /\ chainHeight > lastValidBlockHeight)
    /\ [][signature # <<>> /\ sends' # sends => pc = "rebroadcast"]_vars

\* C34 as amended: a re-broadcast is issued only in a poll iteration whose
\* status check found the transaction neither failed nor confirmed nor
\* finalized (unseen, or seen with status processed) and in which the block
\* height is greater than the lastValidBlockHeight recorded at the first
\* broadcast; in every other iteration nothing is sent.
C34_RebroadcastOnlyWhenUnconfirmed ==
    /\ [](pc = "rebroadcast"
              => polled \in {"null", "processed"} /\ chainHeight > lastValidBlockHeight)
    /\ [][signature # <<>> /\ sends' # sends
              => pc = "rebroadcast" /\ Len(sends') = Len(sends) + 1]_vars

C34_Witness ==
    /\ Rebroadcasts >= 1
    /\ polled = "processed"
    /\ pc = "poll"

----------------------------------------------------------------------------
(* Claims about executeQuote and the quote cache *)

\* C35: executeQuote removes the quote from the cache only after the
\* transaction was confirmed with a receipt of status 1: the cache changes
\* only in the step in which a call returns status 1, and then loses that
\* call's quote only; a call that ends with an exception leaves the cache
\* as it was.
C35_DeletedOnlyAfterSuccess ==
    /\ [][quoteCache' # quoteCache
              => \E t \in Tasks :
                     /\ execution[t].pc = "wait"
                     /\ execution'[t].result = ExecutionReturned
                     /\ quoteCache' = quoteCache \ {execution[t].quoteId}]_vars
    /\ [][\A t \in Tasks :
              (execution[t].pc # "done" /\ execution'[t].pc = "done"
                   /\ execution'[t].result # ExecutionReturned)
                  => quoteCache' = quoteCache]_vars

\* A call failed on its receipt and its quote is still cached
C35_Witness ==
    \E t \in Tasks :
        /\ execution[t].pc = "done"
        /\ execution[t].result = ExecutionThrew(InternalServerError(<<"Transaction failed">>))
        /\ execution[t].quoteId \in quoteCache
        /\ \A q \in QuoteIds : swaps[q] = 0

\* C36: for one quoteId at most one executeQuote call ever returns
\* status 1, whether the calls are made one after the other or overlap.
C36_AtMostOneSwapPerQuote ==
    \A q \in QuoteIds : swaps[q] <= 1

----------------------------------------------------------------------------
(* Claims about ETCSwap.getInstance *)

\* C37: every instance ETCSwap.getInstance(network) returns is fully
\* initialized: its init() has ended without an exception.
C37_ReturnedInitialized ==
    \A t \in Tasks :
        (getCalls[t].pc = "done" /\ getCalls[t].class = "ETCSwap" /\ getCalls[t].returned # 0)
            => getCalls[t].returned \in initialized

----------------------------------------------------------------------------
(* Claims about the EIP-1559 fee pair *)

\* C38: every type 2 gas options object prepareGasOptions produces and
\* every EIP-1559 entry of the fee cache has maxPriorityFeePerGas at most
\* maxFeePerGas.
C38_PriorityAtMostMaxFee ==
    /\ \A t \in Tasks :
           (build[t].gasOptions # NoGasOptions /\ build[t].gasOptions.type = 2)
               => Val(build[t].gasOptions.maxPriorityFeePerGas)
                      <= Val(build[t].gasOptions.maxFeePerGas)
    /\ CachedEIP1559(lastGasPriceEstimate)
           => Val(lastGasPriceEstimate.maxPriorityFeePerGas)
                  <= Val(lastGasPriceEstimate.maxFeePerGas)

----------------------------------------------------------------------------
(* Claims about Solana.confirmTransaction *)

\* C39: confirmTransaction monitors over the Helius WebSocket when one is
\* connected and polls in every other case, also on an instance without a
\* Helius service; polling returns confirmed = false when the transaction
\* is not found and rejects on a timeout or an on-chain error.
C39_PollsWithoutWebSocket ==
    confirmation.call # "none"
        => LET h == confirmation.helius
               up == confirmation.upstream
               outcome == confirmation.outcome
           IN  IF h.service /\ h.webSocket THEN outcome.via = "webSocket"
               ELSE /\ outcome.via = "polling"
                    /\ up.getTransaction = "null"
                           => outcome.kind = "return" /\ ~outcome.confirmed
                    /\ up.getTransaction \in {"err", "pending"} => outcome.kind = "throw"
                    /\ (up.getTransaction = "ok" /\ up.status = "pending")
                           => outcome.kind = "throw"

====
